---- MODULE Spec2Model ----
(***************************************************************************)
(* Model of the surface-generation engine of sc-rs                         *)
(* (src/src/sc/surface_generator.rs): the atom store, radius resolution,   *)
(* attention classification, neighbour graph, probe placement, contact,    *)
(* re-entrant and concave dot emission, in the serial and in the parallel  *)
(* engine, with the error paths of each.                                   *)
(*                                                                         *)
(* Geometry.  The code works on f64 coordinates.  The model works on the   *)
(* integer lattice: atom centres, radii and the probe radius are integers, *)
(* so every comparison the code makes between squared distances and        *)
(* squared radii is made exactly.  A sampled circle or arc is represented  *)
(* by those of its points that lie on the lattice (SphereDirs), so the     *)
(* collision and burial tests on a sample are exact as well; the number    *)
(* of samples the code would draw is kept only where the code looks at it  *)
(* (the subdivision cap of the samplers).  A dot keeps the fields the      *)
(* engine's control flow decides (kind, owner, burial flag) and the sphere *)
(* centre pcen its burial flag was computed from; its coordinate, normal   *)
(* and area are not modelled.                                              *)
(*                                                                         *)
(* Indices are the code's 0-based indices; the i-th atom of the store is   *)
(* run.atoms[i + 1].  A call of add_atom, calc or reset is one action.     *)
(***************************************************************************)
EXTENDS Integers, Sequences, FiniteSets, TLC

VARIABLES settings, radii, run, calcs, last, computed

vars == <<settings, radii, run, calcs, last, computed>>

(***************************************************************************)
(* Bounds of the model.                                                    *)
(***************************************************************************)
MaxAtoms == 4
MaxCalcs == 2

(***************************************************************************)
(* Vec3                                                                    *)
(***************************************************************************)
VAdd(a, b) == <<a[1] + b[1], a[2] + b[2], a[3] + b[3]>>
VSub(a, b) == <<a[1] - b[1], a[2] - b[2], a[3] - b[3]>>
VDot(a, b) == a[1] * b[1] + a[2] * b[2] + a[3] * b[3]
VCross(a, b) == <<a[2] * b[3] - a[3] * b[2], a[3] * b[1] - a[1] * b[3], a[1] * b[2] - a[2] * b[1]>>
distance_squared(a, b) == VDot(VSub(a, b), VSub(a, b))

Abs(x) == IF x < 0 THEN -x ELSE x
Sq(x) == x * x

(***************************************************************************)
(* Settings.  The fields the generator reads.  A run of the model fixes    *)
(* the settings at construction, one of SettingsChoices.                   *)
(***************************************************************************)
DOT_DENSITY == 15

DefaultSettings ==
    [rp |-> 1, dot_density |-> DOT_DENSITY, separation_cutoff |-> 5,
     use_atom_type_radius |-> FALSE, enable_parallel |-> TRUE]

SettingsChoices ==
    { DefaultSettings,
      [DefaultSettings EXCEPT !.enable_parallel = FALSE],
      [DefaultSettings EXCEPT !.dot_density = 2147395600, !.use_atom_type_radius = TRUE],
      [DefaultSettings EXCEPT !.dot_density = 2147395600, !.use_atom_type_radius = TRUE,
                              !.enable_parallel = FALSE] }

(***************************************************************************)
(* Errors: the variants of SurfaceCalculatorError the engine returns.      *)
(***************************************************************************)
Ok == [kind |-> "Ok"]
Err(k) == [kind |-> k]
ErrPair(k, a, b) == [kind |-> k, a |-> a, b |-> b]

(***************************************************************************)
(* Radii table and wildcard_match.  Strings are sequences of characters.   *)
(***************************************************************************)
RadiiTable ==
    << [residue |-> <<"A", "L", "A">>, atom |-> <<"C", "A", " ">>, radius |-> 2],
       [residue |-> <<"G", "L", "*">>, atom |-> <<"C", "*">>, radius |-> 1],
       [residue |-> <<"*", "*", "*">>, atom |-> <<"C">>, radius |-> 2],
       [residue |-> <<"*", "*", "*">>, atom |-> <<"N">>, radius |-> 2] >>

RECURSIVE rtrim_spaces(_)
rtrim_spaces(s) ==
    IF Len(s) > 0 /\ s[Len(s)] = " " THEN rtrim_spaces(SubSeq(s, 1, Len(s) - 1)) ELSE s

\* str::find('*'): 0-based position of the first '*', or -1
RECURSIVE FindStarFrom(_, _)
FindStarFrom(p, k) ==
    IF k > Len(p) THEN -1
    ELSE IF p[k] = "*" THEN k - 1
    ELSE FindStarFrom(p, k + 1)

\* wildcard_match that compares the query as handed in, trailing spaces included
wildcard_match_QueryUntrimmed(query, pattern) ==
    LET q == query
        p == rtrim_spaces(pattern)
        star == FindStarFrom(p, 1)
    IN  IF Len(p) > 0 /\ p[1] = "*" THEN TRUE
        ELSE IF star >= 0
             THEN IF Len(q) < star THEN FALSE
                  ELSE SubSeq(q, 1, star) = SubSeq(p, 1, star)
        ELSE q = p

wildcard_match(query, pattern) ==
    LET q == rtrim_spaces(query)
        p == rtrim_spaces(pattern)
        star == FindStarFrom(p, 1)
    IN  IF Len(p) > 0 /\ p[1] = "*" THEN TRUE
        ELSE IF star >= 0
             THEN IF Len(q) < star THEN FALSE
                  ELSE SubSeq(q, 1, star) = SubSeq(p, 1, star)
        ELSE q = p

Lower == <<"a", "b", "c", "g", "h", "l", "n", "x", "y", "z">>
Upper == <<"A", "B", "C", "G", "H", "L", "N", "X", "Y", "Z">>
is_ascii_alphabetic(c) == \E k \in 1..Len(Upper) : c = Upper[k] \/ c = Lower[k]
to_ascii_uppercase(c) ==
    IF \E k \in 1..Len(Lower) : c = Lower[k]
    THEN Upper[CHOOSE k \in 1..Len(Lower) : c = Lower[k]]
    ELSE c

\* atom.chars().find(is_ascii_alphabetic).map(to_ascii_uppercase).unwrap_or(' ')
RECURSIVE FirstAlphaFrom(_, _)
FirstAlphaFrom(s, k) ==
    IF k > Len(s) THEN " "
    ELSE IF is_ascii_alphabetic(s[k]) THEN to_ascii_uppercase(s[k])
    ELSE FirstAlphaFrom(s, k + 1)

\* str::trim: spaces off both ends
RECURSIVE ltrim_spaces(_)
ltrim_spaces(s) ==
    IF Len(s) > 0 /\ s[1] = " " THEN ltrim_spaces(Tail(s)) ELSE s
trim(s) == ltrim_spaces(rtrim_spaces(s))

starts_with_generic(s) ==
    Len(s) >= 3 /\ SubSeq(s, 1, 3) = <<"*", "*", "*">>

\* first record of the table (from position k) both of whose patterns match; 0 if none
RECURSIVE FirstTableMatch(_, _, _)
FirstTableMatch(tab, atom, k) ==
    IF k > Len(tab) THEN 0
    ELSE IF wildcard_match(atom.residue, tab[k].residue) /\ wildcard_match(atom.atom, tab[k].atom)
         THEN k
    ELSE FirstTableMatch(tab, atom, k + 1)

\* first generic record (***) whose atom field is the element; 0 if none
RECURSIVE FirstElementMatch(_, _, _)
FirstElementMatch(tab, elem, k) ==
    IF k > Len(tab) THEN 0
    ELSE IF starts_with_generic(trim(tab[k].residue)) /\ trim(tab[k].atom) = <<elem>>
         THEN k
    ELSE FirstElementMatch(tab, elem, k + 1)

\* assign_atom_radius that tries the generic-element records before the full match
assign_atom_radius_ElementFirst(st, tab, atom) ==
    IF st.use_atom_type_radius
    THEN IF atom.atom_type_radius # 0
         THEN [atom |-> [atom EXCEPT !.radius = atom.atom_type_radius], res |-> Ok]
         ELSE [atom |-> atom, res |-> Err("Io")]
    ELSE LET m == FirstTableMatch(tab, atom, 1)
             elem == FirstAlphaFrom(atom.atom, 1)
             e == IF elem # " " THEN FirstElementMatch(tab, elem, 1) ELSE 0
         IN  IF e > 0 THEN [atom |-> [atom EXCEPT !.radius = tab[e].radius], res |-> Ok]
             ELSE IF m > 0 THEN [atom |-> [atom EXCEPT !.radius = tab[m].radius], res |-> Ok]
             ELSE [atom |-> atom, res |-> Err("Io")]

(***************************************************************************)
(* assign_atom_radius: [atom, res]                                         *)
(***************************************************************************)
assign_atom_radius(st, tab, atom) ==
    IF st.use_atom_type_radius
    THEN IF atom.atom_type_radius # 0
         THEN [atom |-> [atom EXCEPT !.radius = atom.atom_type_radius], res |-> Ok]
         ELSE [atom |-> atom, res |-> Err("Io")]
    ELSE LET m == FirstTableMatch(tab, atom, 1)
             elem == FirstAlphaFrom(atom.atom, 1)
             e == IF elem # " " THEN FirstElementMatch(tab, elem, 1) ELSE 0
         IN  IF m > 0 THEN [atom |-> [atom EXCEPT !.radius = tab[m].radius], res |-> Ok]
             ELSE IF e > 0 THEN [atom |-> [atom EXCEPT !.radius = tab[e].radius], res |-> Ok]
             ELSE [atom |-> atom, res |-> Err("Io")]

(***************************************************************************)
(* The run state (RunState) and its parts.                                 *)
(***************************************************************************)
DefaultSurfaceStats == [n_atoms |-> 0, n_buried_atoms |-> 0, n_blocked_atoms |-> 0, trimmed_area |-> 0]

DefaultResults ==
    [valid |-> 0, n_atoms |-> 0,
     surfaces |-> <<DefaultSurfaceStats, DefaultSurfaceStats>>,
     dots |-> [convex |-> 0, toroidal |-> 0, concave |-> 0],
     sc |-> 0, distance |-> 0, area |-> 0]

DefaultRunState ==
    [atoms |-> <<>>, probes |-> <<>>, dots |-> <<<<>>, <<>>>>,
     trimmed_dots |-> <<<<>>, <<>>>>, results |-> DefaultResults, radmax |-> 0]

\* Atom::new() with the fields the caller of add_atom fills in
NewAtom(coor, radius, atr, residue, atom) ==
    [natom |-> 0, molecule |-> 0, radius |-> radius, atom_type_radius |-> atr,
     density |-> 0, attention |-> "Buried", accessible |-> FALSE,
     atom |-> atom, residue |-> residue, coor |-> coor,
     neighbor_indices |-> <<>>, buried_by_indices |-> <<>>]

(***************************************************************************)
(* The inputs of add_atom the model draws from: the molecule argument and  *)
(* the atom record handed in.                                              *)
(***************************************************************************)
AtomInputs ==
    { [molecule |-> 0,
       atom |-> NewAtom(<<2, 1, 0>>, 2, 2, <<"A", "L", "A">>, <<"C", "A">>)],
      [molecule |-> 2,
       atom |-> NewAtom(<<-2, 1, 0>>, 0, 2, <<"A", "L", "A">>, <<"C", "A">>)],
      [molecule |-> -1,
       atom |-> NewAtom(<<-1, -2, 0>>, 0, 2, <<"X", "Y", "Z">>, <<"c", "b">>)],
      [molecule |-> 1,
       atom |-> NewAtom(<<0, 2, 4>>, 2, 2, <<"A", "L", "A">>, <<"N">>)],
      [molecule |-> 0,
       atom |-> NewAtom(<<3, 1, 0>>, 0, 1, <<"G", "L", "Y">>, <<"C", "A">>)],
      [molecule |-> 0,
       atom |-> NewAtom(<<0, 0, 0>>, 0, 0, <<"A", "L", "A">>, <<"1", "H">>)],
      [molecule |-> 1,
       atom |-> NewAtom(<<0, 0, 0>>, 0, -1, <<"H", "O", "H">>, <<"H", "1">>)] }

(***************************************************************************)
(* init: loads the radii table when none is loaded.                        *)
(***************************************************************************)
init(rad) == IF rad = <<>> THEN RadiiTable ELSE rad

(***************************************************************************)
(* The radius table file an override path names: missing, not a JSON list  *)
(* of records, or a list of records.  read_atomic_radii_from_path gives    *)
(* [ok, radii]; records with a radius <= 0 are dropped.                     *)
(***************************************************************************)
read_atomic_radii_from_str(file) ==
    IF file.kind # "json" THEN [ok |-> FALSE, radii |-> <<>>]
    ELSE [ok |-> TRUE, radii |-> SelectSeq(file.recs, LAMBDA rec : rec.radius > 0)]

read_atomic_radii_from_path(file) ==
    IF file.kind = "missing" THEN [ok |-> FALSE, radii |-> <<>>]
    ELSE read_atomic_radii_from_str(file)

\* init under an environment: env.set tells whether ATOMIC_RADII or ATOMIC_RADII_PATH is
\* set, env.file is the file it names.  [radii, res]
init_env(rad, env) ==
    IF rad # <<>> THEN [radii |-> rad, res |-> Ok]
    ELSE IF env.set /\ read_atomic_radii_from_path(env.file).ok
    THEN [radii |-> read_atomic_radii_from_path(env.file).radii, res |-> Ok]
    ELSE [radii |-> RadiiTable, res |-> Ok]

\* add_atom that counts the atom before it tests the radius
add_atom_CountsFirst(st, tab, r, molecule, atom0) ==
    LET resolved == IF atom0.radius <= 0 THEN assign_atom_radius(st, tab, atom0)
                    ELSE [atom |-> atom0, res |-> Ok]
        atom == resolved.atom
        mol == IF molecule = 1 THEN 1 ELSE 0
        counted == [r EXCEPT !.results.surfaces[mol + 1].n_atoms = @ + 1,
                             !.results.n_atoms = @ + 1]
    IN  IF resolved.res.kind # "Ok" THEN [run |-> counted, res |-> resolved.res]
        ELSE IF atom.radius > 0
        THEN [run |-> [counted EXCEPT !.atoms =
                           Append(r.atoms, [atom EXCEPT !.density = st.dot_density,
                                                        !.molecule = mol,
                                                        !.natom = r.results.n_atoms + 1,
                                                        !.accessible = FALSE])],
              res |-> Ok]
        ELSE [run |-> counted, res |-> Err("Io")]

\* add_atom that stores every molecule argument >= 1 in molecule 1
add_atom_PositiveIsOne(st, tab, r, molecule, atom0) ==
    LET resolved == IF atom0.radius <= 0 THEN assign_atom_radius(st, tab, atom0)
                    ELSE [atom |-> atom0, res |-> Ok]
        atom == resolved.atom
        mol == IF molecule >= 1 THEN 1 ELSE 0
    IN  IF resolved.res.kind # "Ok" THEN [run |-> r, res |-> resolved.res]
        ELSE IF atom.radius > 0
        THEN [run |-> [r EXCEPT !.atoms =
                           Append(r.atoms, [atom EXCEPT !.density = st.dot_density,
                                                        !.molecule = mol,
                                                        !.natom = r.results.n_atoms + 1,
                                                        !.accessible = FALSE]),
                                !.results.surfaces[mol + 1].n_atoms = @ + 1,
                                !.results.n_atoms = @ + 1],
              res |-> Ok]
        ELSE [run |-> r, res |-> Err("Io")]

\* add_atom that numbers the atoms from 0
add_atom_ZeroBased(st, tab, r, molecule, atom0) ==
    LET resolved == IF atom0.radius <= 0 THEN assign_atom_radius(st, tab, atom0)
                    ELSE [atom |-> atom0, res |-> Ok]
        atom == resolved.atom
    IN  IF resolved.res.kind # "Ok" THEN [run |-> r, res |-> resolved.res]
        ELSE IF atom.radius > 0
        THEN LET mol == IF molecule = 1 THEN 1 ELSE 0
                 stored == [atom EXCEPT !.density = st.dot_density,
                                        !.molecule = mol,
                                        !.natom = r.results.n_atoms,
                                        !.accessible = FALSE]
             IN  [run |-> [r EXCEPT !.atoms = Append(r.atoms, stored),
                                    !.results.surfaces[mol + 1].n_atoms = @ + 1,
                                    !.results.n_atoms = @ + 1],
                  res |-> Ok]
        ELSE [run |-> r, res |-> Err("Io")]

(***************************************************************************)
(* add_atom: [run, res]                                                    *)
(***************************************************************************)
add_atom(st, tab, r, molecule, atom0) ==
    LET resolved == IF atom0.radius <= 0 THEN assign_atom_radius(st, tab, atom0)
                    ELSE [atom |-> atom0, res |-> Ok]
        atom == resolved.atom
    IN  IF resolved.res.kind # "Ok" THEN [run |-> r, res |-> resolved.res]
        ELSE IF atom.radius > 0
        THEN LET mol == IF molecule = 1 THEN 1 ELSE 0
                 stored == [atom EXCEPT !.density = st.dot_density,
                                        !.molecule = mol,
                                        !.natom = r.results.n_atoms + 1,
                                        !.accessible = FALSE]
             IN  [run |-> [r EXCEPT !.atoms = Append(r.atoms, stored),
                                    !.results.surfaces[mol + 1].n_atoms = @ + 1,
                                    !.results.n_atoms = @ + 1],
                  res |-> Ok]
        ELSE [run |-> r, res |-> Err("Io")]

\* reset that leaves results as they are
reset_KeepResults(r) ==
    [r EXCEPT !.atoms = <<>>, !.probes = <<>>, !.dots = <<<<>>, <<>>>>,
              !.trimmed_dots = <<<<>>, <<>>>>]

(***************************************************************************)
(* reset                                                                   *)
(***************************************************************************)
reset(r) ==
    [r EXCEPT !.atoms = <<>>, !.probes = <<>>, !.dots = <<<<>>, <<>>>>,
              !.trimmed_dots = <<<<>>, <<>>>>, !.results = DefaultResults]

(***************************************************************************)
(* Lattice directions.  SphereDirs[R] lists, in a fixed order, the lattice *)
(* vectors of length exactly R: the points of a sphere of radius R that a  *)
(* sampler's output is represented by.                                     *)
(***************************************************************************)
MaxOf(S) == CHOOSE x \in S : \A y \in S : y <= x

RadiusValues ==
    {RadiiTable[k].radius : k \in 1..Len(RadiiTable)} \cup {i.atom.radius : i \in AtomInputs}
        \cup {i.atom.atom_type_radius : i \in AtomInputs}

MaxExpandedRadius == MaxOf(RadiusValues) + MaxOf({s.rp : s \in SettingsChoices})

VKey(v) == (v[1] + 50) * 10000 + (v[2] + 50) * 100 + (v[3] + 50)

RECURSIVE SortedVecs(_)
SortedVecs(S) ==
    IF S = {} THEN <<>>
    ELSE LET v == CHOOSE v \in S : \A w \in S : VKey(v) <= VKey(w)
         IN  <<v>> \o SortedVecs(S \ {v})

SphereDirs ==
    [R \in 0..MaxExpandedRadius |->
        SortedVecs({v \in (-R..R) \X (-R..R) \X (-R..R) : VDot(v, v) = R * R})]

Indices(n) == [k \in 1..n |-> k - 1]
At(atoms, i) == atoms[i + 1]
SeqToSet(s) == {s[k] : k \in 1..Len(s)}

(***************************************************************************)
(* assign_attention_numbers                                                *)
(***************************************************************************)
\* the classification with dist_min2 starting from 0
IsFar_ZeroInit(st, atoms, i) ==
    \A d2 \in {0} \cup {distance_squared(At(atoms, i).coor, At(atoms, j).coor) :
                           j \in {j \in 0..(Len(atoms) - 1) :
                                     At(atoms, j).molecule # At(atoms, i).molecule}} :
        d2 >= st.separation_cutoff * st.separation_cutoff

\* dist_min2 >= sep2, with dist_min2 = INFINITY when the other molecule is empty
IsFar(st, atoms, i) ==
    \A j \in 0..(Len(atoms) - 1) :
        At(atoms, j).molecule # At(atoms, i).molecule
            => distance_squared(At(atoms, i).coor, At(atoms, j).coor)
                   >= st.separation_cutoff * st.separation_cutoff

\* assign_attention_numbers that adds to the counters of the call before
assign_attention_numbers_Accumulate(st, r) ==
    LET n == Len(r.atoms)
        att(i) == IF IsFar(st, r.atoms, i) THEN "Far" ELSE "Buried"
        cnt(m, a) == Cardinality({i \in 0..(n - 1) : At(r.atoms, i).molecule = m /\ att(i) = a})
    IN  [r EXCEPT !.atoms = [k \in 1..n |-> [r.atoms[k] EXCEPT !.attention = att(k - 1)]],
                  !.results.surfaces[1].n_buried_atoms = @ + cnt(0, "Buried"),
                  !.results.surfaces[1].n_blocked_atoms = @ + cnt(0, "Far"),
                  !.results.surfaces[2].n_buried_atoms = @ + cnt(1, "Buried"),
                  !.results.surfaces[2].n_blocked_atoms = @ + cnt(1, "Far")]

assign_attention_numbers(st, r) ==
    LET n == Len(r.atoms)
        att(i) == IF IsFar(st, r.atoms, i) THEN "Far" ELSE "Buried"
        cnt(m, a) == Cardinality({i \in 0..(n - 1) : At(r.atoms, i).molecule = m /\ att(i) = a})
    IN  [r EXCEPT !.atoms = [k \in 1..n |-> [r.atoms[k] EXCEPT !.attention = att(k - 1)]],
                  !.results.surfaces[1].n_buried_atoms = cnt(0, "Buried"),
                  !.results.surfaces[1].n_blocked_atoms = cnt(0, "Far"),
                  !.results.surfaces[2].n_buried_atoms = cnt(1, "Buried"),
                  !.results.surfaces[2].n_blocked_atoms = cnt(1, "Far")]

(***************************************************************************)
(* Neighbour graph                                                         *)
(***************************************************************************)
\* d2 <= 0.0001
IsCoincident(d2) == d2 * 10000 <= 1

Bridge2(st, a1, a2) == Sq(a1.radius + a2.radius + 2 * st.rp)

\* the j the scan of atom i stops at with a Coincident error; -1 if it runs through
FirstCoincident(atoms, i) ==
    LET bad == {j \in 0..(Len(atoms) - 1) :
                    /\ j # i
                    /\ At(atoms, j).natom # At(atoms, i).natom
                    /\ At(atoms, j).molecule = At(atoms, i).molecule
                    /\ IsCoincident(distance_squared(At(atoms, i).coor, At(atoms, j).coor))}
    IN  IF bad = {} THEN -1 ELSE CHOOSE j \in bad : \A k \in bad : j <= k

\* the indices j < lim pushed to neighbor_indices (same = TRUE) or buried_by_indices
ScanList(st, atoms, i, lim, same) ==
    LET keep(j) ==
            /\ j < lim
            /\ j # i
            /\ At(atoms, j).natom # At(atoms, i).natom
            /\ (At(atoms, j).molecule = At(atoms, i).molecule) = same
            /\ distance_squared(At(atoms, i).coor, At(atoms, j).coor)
                   < Bridge2(st, At(atoms, i), At(atoms, j))
    IN  SelectSeq(Indices(Len(atoms)), keep)

\* sort_unstable_by ascending squared distance from center (insertion order on ties)
RECURSIVE InsertByDistance(_, _, _, _)
InsertByDistance(atoms, center, sorted, j) ==
    IF sorted = <<>> THEN <<j>>
    ELSE IF distance_squared(At(atoms, j).coor, center)
               < distance_squared(At(atoms, sorted[Len(sorted)]).coor, center)
         THEN Append(InsertByDistance(atoms, center, SubSeq(sorted, 1, Len(sorted) - 1), j),
                     sorted[Len(sorted)])
    ELSE Append(sorted, j)

RECURSIVE SortByDistance(_, _, _)
SortByDistance(atoms, center, list) ==
    IF list = <<>> THEN <<>>
    ELSE InsertByDistance(atoms, center,
                          SortByDistance(atoms, center, SubSeq(list, 1, Len(list) - 1)),
                          list[Len(list)])

\* opposite-molecule atoms within bb2 = (4 radmax + 4 rp)^2
CountNbb(st, r, i) ==
    Cardinality({j \in 0..(Len(r.atoms) - 1) :
        /\ At(r.atoms, j).molecule # At(r.atoms, i).molecule
        /\ distance_squared(At(r.atoms, i).coor, At(r.atoms, j).coor)
               < Sq(4 * r.radmax + 4 * st.rp)})

\* the end of the scan of atom i, which stopped at stop (-1: ran through) and left a1
FindNeighborsEnd(st, r, i, stop, a1) ==
    IF stop >= 0
    THEN [run |-> [r EXCEPT !.atoms[i + 1] = a1],
          res |-> ErrPair("Coincident", a1.natom, At(r.atoms, stop).natom)]
    ELSE IF a1.attention = "Consider" /\ CountNbb(st, r, i) = 0
    THEN [run |-> [r EXCEPT !.atoms[i + 1] = a1], res |-> Ok]
    ELSE IF a1.neighbor_indices = <<>>
    THEN [run |-> [r EXCEPT !.atoms[i + 1] = [a1 EXCEPT !.accessible = TRUE]], res |-> Ok]
    ELSE [run |-> [r EXCEPT !.atoms[i + 1] =
                      [a1 EXCEPT !.neighbor_indices =
                                     SortByDistance(r.atoms, a1.coor, a1.neighbor_indices)]],
          res |-> Ok]

FindNeighborsScan(st, r, i, stop, lim) ==
    FindNeighborsEnd(st, r, i, stop,
                     [At(r.atoms, i) EXCEPT
                          !.neighbor_indices = ScanList(st, r.atoms, i, lim, TRUE),
                          !.buried_by_indices = ScanList(st, r.atoms, i, lim, FALSE)])

ScanLimit(atoms, stop) == IF stop >= 0 THEN stop ELSE Len(atoms)

FindNeighborsTo(st, r, i, stop) == FindNeighborsScan(st, r, i, stop, ScanLimit(r.atoms, stop))

\* serial engine: [run, res]
find_neighbors_for_atom_by_index(st, r, i) ==
    FindNeighborsTo(st, r, i, FirstCoincident(r.atoms, i))

\* parallel engine: the task of atom i, when it meets no coincident atom
NeighborTaskStore(a1, nb, bb) ==
    [a1 EXCEPT !.neighbor_indices = nb,
               !.buried_by_indices = bb,
               !.accessible = IF nb = <<>> THEN TRUE ELSE @]

NeighborTask(st, atoms, i) ==
    NeighborTaskStore(At(atoms, i),
                      SortByDistance(atoms, At(atoms, i).coor,
                                     ScanList(st, atoms, i, Len(atoms), TRUE)),
                      ScanList(st, atoms, i, Len(atoms), FALSE))

\* the first task, in index order, that meets a coincident atom; -1 if none does
FirstFailedTask(atoms) ==
    IF \A i \in 0..(Len(atoms) - 1) : FirstCoincident(atoms, i) < 0 THEN -1
    ELSE CHOOSE i \in 0..(Len(atoms) - 1) :
             /\ FirstCoincident(atoms, i) >= 0
             /\ \A k \in 0..(i - 1) : FirstCoincident(atoms, k) < 0

NeighborsCollect(st, r, i) ==
    IF i >= 0
    THEN [run |-> r,
          res |-> ErrPair("Coincident", At(r.atoms, i).natom,
                          At(r.atoms, FirstCoincident(r.atoms, i)).natom)]
    ELSE [run |-> [r EXCEPT !.atoms = [k \in 1..Len(r.atoms) |-> NeighborTask(st, r.atoms, k - 1)]],
          res |-> Ok]

\* parallel engine: every atom is a task; the driver stores the lists when all succeed
compute_neighbors_all_parallel(st, r) == NeighborsCollect(st, r, FirstFailedTask(r.atoms))

(***************************************************************************)
(* Samplers.  sample_arc_segment draws the angles (k + 1/2) delta, delta = *)
(* 1 / (sqrt(density) rad), up to the span, at most MaxSubdivisions of     *)
(* them, and fails when more would fit.  Angles are in centiradians; an    *)
(* arc's span is known to the model by the sign of its cosine.             *)
(***************************************************************************)
MaxSubdivisions == 100000
PiCentirad == 314

RECURSIVE ISqrtFrom(_, _, _)
ISqrtFrom(n, lo, hi) ==
    IF lo >= hi THEN lo
    ELSE LET mid == (lo + hi + 1) \div 2
         IN  IF mid <= n \div mid THEN ISqrtFrom(n, mid, hi) ELSE ISqrtFrom(n, lo, mid - 1)

\* floor of the square root
ISqrt(n) == IF n <= 0 THEN 0 ELSE ISqrtFrom(n, 0, n)

SqrtDensity == [d \in {s.dot_density : s \in SettingsChoices} |-> ISqrt(d)]

ArcSpan(cos) ==
    IF cos > 0 THEN PiCentirad \div 4
    ELSE IF cos = 0 THEN PiCentirad \div 2
    ELSE (3 * PiCentirad) \div 4

\* a + delta < angle after MaxSubdivisions steps: (MaxSubdivisions + 1/2) delta < angle,
\* for a radius times sqrt(density) of sdrad and a span of angle centiradians
TooManySubdivisions(sdrad, angle) ==
    sdrad > 0 /\ angle * sdrad > 100 * MaxSubdivisions + 50

(***************************************************************************)
(* add_dot: the burial flag is decided against every atom of the opposite  *)
(* molecule.                                                               *)
(***************************************************************************)
\* the burial test with erl = b.radius
IsBuried_AtomRadiusOnly(st, atoms, molecule, pcen) ==
    LET other_mol == IF molecule = 0 THEN 1 ELSE 0
    IN  \E k \in 1..Len(atoms) :
            /\ atoms[k].molecule = other_mol
            /\ distance_squared(pcen, atoms[k].coor) <= Sq(atoms[k].radius)

IsBuried(st, atoms, molecule, pcen) ==
    LET other_mol == IF molecule = 0 THEN 1 ELSE 0
    IN  \E k \in 1..Len(atoms) :
            /\ atoms[k].molecule = other_mol
            /\ distance_squared(pcen, atoms[k].coor) <= Sq(atoms[k].radius + st.rp)

MakeDot(st, atoms, molecule, kind, pcen, atom_index) ==
    [kind |-> kind, atom_index |-> atom_index, pcen |-> pcen,
     buried |-> IsBuried(st, atoms, molecule, pcen)]

\* add_dot that counts the dot under its kind a second time
add_dot_CountsAgain(st, r, molecule, kind, pcen, atom_index) ==
    [r EXCEPT !.dots[molecule + 1] =
                  Append(@, MakeDot(st, r.atoms, molecule, kind, pcen, atom_index)),
              !.results.dots.convex = IF kind = "Contact" THEN @ + 1 ELSE @,
              !.results.dots.toroidal = IF kind = "Reentrant" THEN @ + 1 ELSE @,
              !.results.dots.concave = IF kind = "Cavity" THEN @ + 1 ELSE @]

add_dot(st, r, molecule, kind, pcen, atom_index) ==
    [r EXCEPT !.dots[molecule + 1] =
                  Append(@, MakeDot(st, r.atoms, molecule, kind, pcen, atom_index))]

(***************************************************************************)
(* The construction between atom i and a neighbour j (far term,            *)
(* containment term, ring) in exact integer terms:                         *)
(*   ring_radius^2 = far_term contain_term / (4 d^2).                      *)
(***************************************************************************)
FarTerm(st, a1, a2) ==
    Sq(a1.radius + st.rp + a2.radius + st.rp) - distance_squared(a1.coor, a2.coor)

ContainTerm(a1, a2) ==
    distance_squared(a1.coor, a2.coor) - Sq(a1.radius - a2.radius)

\* the lattice points of the expanded sphere of an atom, in the order of SphereDirs
Translate(c, dirs) == [k \in 1..Len(dirs) |-> VAdd(c, dirs[k])]

ExpandedPoints(st, a1) == Translate(a1.coor, SphereDirs[a1.radius + st.rp])

\* the lattice points of the ring circle of a1 and a2: at the expanded radius from both
RingPoints(st, a1, a2) ==
    SelectSeq(ExpandedPoints(st, a1),
              LAMBDA q : distance_squared(q, a2.coor) = Sq(a2.radius + st.rp))

\* (d1 + d2) / 2 and (d1 + d2 + d3) / 3, for densities near the top of the integer range
MeanDensity2(a1, a2) == a1.density + (a2.density - a1.density) \div 2
MeanDensity3(a1, a2, a3) ==
    a1.density + ((a2.density - a1.density) + (a3.density - a1.density)) \div 3

\* sqrt(effective_density) * ring_radius = sqrt(density) * mean_radius, with
\* mean_radius = (roll_circle_radius_i + 2 belt_radius + roll_circle_radius_j) / 4
RingMean4(st, a1, a2, ring_radius) ==
    (ring_radius * a1.radius) \div (a1.radius + st.rp)
        + 2 * (IF ring_radius - st.rp <= 0 THEN 0 ELSE ring_radius - st.rp)
        + (ring_radius * a2.radius) \div (a2.radius + st.rp)

RingSdRad(st, a1, a2) ==
    (SqrtDensity[MeanDensity2(a1, a2)]
        * RingMean4(st, a1, a2,
                    ISqrt((FarTerm(st, a1, a2) * ContainTerm(a1, a2))
                              \div (4 * distance_squared(a1.coor, a2.coor))))) \div 4

(***************************************************************************)
(* check_atom_collision2_idx                                               *)
(***************************************************************************)
check_atom_collision2_idx(st, atoms, probe_center, atom1, atom2, neighbor_indices) ==
    \E p \in 1..Len(neighbor_indices) :
        LET neighbor == At(atoms, neighbor_indices[p])
        IN  /\ neighbor.natom # atom1.natom
            /\ neighbor.natom # atom2.natom
            /\ distance_squared(probe_center, neighbor.coor) <= Sq(neighbor.radius + st.rp)

(***************************************************************************)
(* build_probe_triplets.  The probe centres of (i, j, k) are the points at *)
(* the expanded radius from all three atoms, one on each side of the plane *)
(* of the centres (sign_choice = +1 on the side of (j - i) x (k - i)); the *)
(* height is the distance of the centre from that plane.                   *)
(***************************************************************************)
TripletNormal(a1, a2, a3) == VCross(VSub(a2.coor, a1.coor), VSub(a3.coor, a1.coor))

\* sin_wedge <= 0: the axes i->j and i->k are parallel
WedgeDegenerate(a1, a2, a3) ==
    /\ TripletNormal(a1, a2, a3) = <<0, 0, 0>>
    /\ VDot(VSub(a2.coor, a1.coor), VSub(a3.coor, a1.coor)) > 0

\* dtijk2 < rkp2, that is midplane_center.distance(atom3.coor) < expanded_radius_k^2 -
\* ring_radius^2, for atom3 on the axis i->j.  With d = |i j|, the midplane centre at T / (2 d)
\* from i and atom3 at (k - i).(j - i) / d from i, the two sides are off / (2 d) and
\* rhs / (4 d^2)
DegenerateBlocks(st, a1, a2, a3) ==
    LET d2 == distance_squared(a1.coor, a2.coor)
        T == d2 + Sq(a1.radius + st.rp) - Sq(a2.radius + st.rp)
        off == Abs(2 * VDot(VSub(a3.coor, a1.coor), VSub(a2.coor, a1.coor)) - T)
        rhs == 4 * d2 * Sq(a3.radius + st.rp) - FarTerm(st, a1, a2) * ContainTerm(a1, a2)
    IN  rhs > 0 /\ 4 * d2 * off * off < rhs * rhs

\* the probe centre of the given sign, as a sequence of at most one point
ProbeCentreOn(st, a1, a2, a3, n, sign_choice) ==
    SelectSeq(ExpandedPoints(st, a1),
              LAMBDA c : /\ distance_squared(c, a2.coor) = Sq(a2.radius + st.rp)
                         /\ distance_squared(c, a3.coor) = Sq(a3.radius + st.rp)
                         /\ VDot(n, VSub(c, a1.coor)) * sign_choice > 0)

ProbeCentre(st, a1, a2, a3, sign_choice) ==
    ProbeCentreOn(st, a1, a2, a3, TripletNormal(a1, a2, a3), sign_choice)

\* the probe record with atom i first whatever the sign
ProbeOn_IFirst(a1, j, i, k, c, n, sign_choice) ==
    [atom_indices |-> <<i, j, k>>,
     height2 |-> [num |-> Sq(VDot(n, VSub(c, a1.coor))), den |-> VDot(n, n)],
     point |-> c,
     alt |-> <<n[1] * sign_choice, n[2] * sign_choice, n[3] * sign_choice>>]

ProbeOn(a1, j, i, k, c, n, sign_choice) ==
    [atom_indices |-> IF sign_choice > 0 THEN <<i, j, k>> ELSE <<j, i, k>>,
     height2 |-> [num |-> Sq(VDot(n, VSub(c, a1.coor))), den |-> VDot(n, n)],
     point |-> c,
     alt |-> <<n[1] * sign_choice, n[2] * sign_choice, n[3] * sign_choice>>]

MakeProbe(a1, a2, a3, i, k, c, sign_choice) ==
    ProbeOn(a1, a2.natom - 1, i, k, c, TripletNormal(a1, a2, a3), sign_choice)

\* the probe of one sign, after the collision check
ProbeAt(st, atoms, i, a1, a2, a3, k, neighbor_indices, cs, sign_choice) ==
    IF cs = <<>> THEN <<>>
    ELSE IF check_atom_collision2_idx(st, atoms, cs[1], a2, a3, neighbor_indices) THEN <<>>
    ELSE <<MakeProbe(a1, a2, a3, i, k, cs[1], sign_choice)>>

ProbeOfSign(st, atoms, i, a1, a2, a3, k, neighbor_indices, sign_choice) ==
    ProbeAt(st, atoms, i, a1, a2, a3, k, neighbor_indices,
            ProbeCentre(st, a1, a2, a3, sign_choice), sign_choice)

\* the probes of one k, for is0 = 1, 2 (sign_choice = +1, -1)
ProbesOfTriplet(st, atoms, i, a2, k, neighbor_indices) ==
    ProbeOfSign(st, atoms, i, At(atoms, i), a2, At(atoms, k), k, neighbor_indices, 1)
        \o ProbeOfSign(st, atoms, i, At(atoms, i), a2, At(atoms, k), k, neighbor_indices, -1)

\* the loop over k from position p of the neighbour list: the probes pushed, and whether the
\* loop was left by the return of the degenerate case.  (Axes that are exactly antiparallel
\* have sin_wedge = 0 as well; the model passes them over.)
RECURSIVE TripletLoop(_, _, _, _, _, _)
TripletStep(st, atoms, i, a1, a2, a3, k, neighbor_indices, rest) ==
    IF a3.natom <= a2.natom THEN rest
    ELSE IF distance_squared(a2.coor, a3.coor)
                >= Sq(a2.radius + st.rp + a3.radius + st.rp) THEN rest
    ELSE IF distance_squared(a1.coor, a3.coor)
                >= Sq(a1.radius + st.rp + a3.radius + st.rp) THEN rest
    ELSE IF a1.attention = "Far" /\ a2.attention = "Far" /\ a3.attention = "Far" THEN rest
    ELSE IF TripletNormal(a1, a2, a3) = <<0, 0, 0>>
         THEN IF WedgeDegenerate(a1, a2, a3) /\ DegenerateBlocks(st, a1, a2, a3)
              THEN [probes |-> <<>>, returned |-> TRUE]
              ELSE rest
    ELSE [rest EXCEPT !.probes = ProbesOfTriplet(st, atoms, i, a2, k, neighbor_indices) \o @]

TripletLoop(st, atoms, i, a2, neighbor_indices, p) ==
    IF p > Len(neighbor_indices) THEN [probes |-> <<>>, returned |-> FALSE]
    ELSE TripletStep(st, atoms, i, At(atoms, i), a2, At(atoms, neighbor_indices[p]),
                     neighbor_indices[p], neighbor_indices,
                     TripletLoop(st, atoms, i, a2, neighbor_indices, p + 1))

\* probes.push for the probes made, and accessible = true if made_probe is reached
StoreTriplets(r, i, out) ==
    [r EXCEPT !.probes = @ \o out.probes,
              !.atoms[i + 1].accessible =
                  IF out.probes # <<>> /\ ~out.returned THEN TRUE ELSE @]

build_probe_triplets(st, r, i, j) ==
    StoreTriplets(r, i, TripletLoop(st, r.atoms, i, At(r.atoms, j),
                                    At(r.atoms, i).neighbor_indices, 1))

(***************************************************************************)
(* emit_reentrant_surface: [run, res].  Every accepted ring sample gives   *)
(* one dot on the arc of atom i and one on the arc of the neighbour.       *)
(***************************************************************************)
\* rp^2 - ring_radius^2 > 0 and |asymmetry_term| < dist_ij
HasCuspPoint(st, a1, a2) ==
    LET d2 == distance_squared(a1.coor, a2.coor)
    IN  /\ Sq(st.rp) * 4 * d2 > FarTerm(st, a1, a2) * ContainTerm(a1, a2)
        /\ Abs(Sq(a1.radius + st.rp) - Sq(a2.radius + st.rp)) < d2

\* a third neighbour of atom i encloses the ring sample
TooClose(st, atoms, neighbors, a2, sub) ==
    \E p \in 1..Len(neighbors) :
        LET neighbor == At(atoms, neighbors[p])
        IN  /\ neighbor.natom # a2.natom
            /\ distance_squared(sub, neighbor.coor) < Sq(neighbor.radius + st.rp)

\* arc_end.dot(vec) >= 1: the two arc vectors coincide
ArcCollapsed(a1, a2, ring_point) ==
    /\ VCross(VSub(a1.coor, ring_point), VSub(a2.coor, ring_point)) = <<0, 0, 0>>
    /\ VDot(VSub(a1.coor, ring_point), VSub(a2.coor, ring_point)) > 0

\* the arc sampler of one side of the belt fails
ArcFails(st, a1, a2) ==
    TooManySubdivisions(SqrtDensity[MeanDensity2(a1, a2)] * st.rp, PiCentirad \div 4)

\* the dot of one side of the belt, on the atom of index owner
SideDot(st, r, emit, owner, ring_point) ==
    IF emit
    THEN add_dot(st, [r EXCEPT !.results.dots.toroidal = @ + 1],
                 At(r.atoms, owner).molecule, "Reentrant", ring_point, owner)
    ELSE r

\* the loop over the ring samples from position p
RECURSIVE ReentrantLoop(_, _, _, _, _, _, _)
\* side j, on r2 = the run with the dot of side i
ReentrantSide2(st, r2, i, j, a2, neighbors, subs, p, cusp, fails) ==
    IF a2.attention # "Far" /\ ~cusp /\ fails
    THEN [run |-> r2, res |-> Err("TooManySubdivisions")]
    ELSE ReentrantLoop(st, SideDot(st, r2, a2.attention # "Far" /\ st.rp > 0 /\ ~cusp,
                                   a2.natom - 1, subs[p]),
                       i, j, neighbors, subs, p + 1)

\* side i, on r1 = the run with both atoms marked accessible
ReentrantSide1(st, r1, i, j, a1, a2, neighbors, subs, p, cusp, fails) ==
    IF ~cusp /\ ArcCollapsed(a1, a2, subs[p]) THEN [run |-> r1, res |-> Ok]
    ELSE IF a1.attention # "Far" /\ fails
    THEN [run |-> r1, res |-> Err("TooManySubdivisions")]
    ELSE ReentrantSide2(st, SideDot(st, r1, a1.attention # "Far" /\ st.rp > 0, i, subs[p]),
                        i, j, a2, neighbors, subs, p, cusp, fails)

ReentrantLoop(st, r, i, j, neighbors, subs, p) ==
    IF p > Len(subs) THEN [run |-> r, res |-> Ok]
    ELSE IF TooClose(st, r.atoms, neighbors, At(r.atoms, j), subs[p])
    THEN ReentrantLoop(st, r, i, j, neighbors, subs, p + 1)
    ELSE ReentrantSide1(st, [r EXCEPT !.atoms[i + 1].accessible = TRUE,
                                      !.atoms[j + 1].accessible = TRUE],
                        i, j, At(r.atoms, i), At(r.atoms, j), neighbors, subs, p,
                        HasCuspPoint(st, At(r.atoms, i), At(r.atoms, j)),
                        ArcFails(st, At(r.atoms, i), At(r.atoms, j)))

emit_reentrant_surface(st, r, i, j) ==
    IF TooManySubdivisions(RingSdRad(st, At(r.atoms, i), At(r.atoms, j)), 2 * PiCentirad)
    THEN [run |-> r, res |-> Err("TooManySubdivisions")]
    ELSE ReentrantLoop(st, r, i, j, At(r.atoms, i).neighbor_indices,
                       RingPoints(st, At(r.atoms, i), At(r.atoms, j)), 1)

(***************************************************************************)
(* build_probes: [run, res]                                                *)
(***************************************************************************)
RECURSIVE BuildProbesLoop(_, _, _, _, _)
\* after emit_reentrant_surface
BuildProbesNext(st, out, i, neighbor_indices, p) ==
    IF out.res.kind # "Ok" THEN out
    ELSE BuildProbesLoop(st, out.run, i, neighbor_indices, p + 1)

\* after build_probe_triplets, which left the run r1
BuildProbesEmit(st, r1, i, j, neighbor_indices, p) ==
    BuildProbesNext(st,
                    IF At(r1.atoms, i).attention # "Far"
                           \/ (At(r1.atoms, j).attention # "Far" /\ st.rp > 0)
                    THEN emit_reentrant_surface(st, r1, i, j)
                    ELSE [run |-> r1, res |-> Ok],
                    i, neighbor_indices, p)

BuildProbesStep(st, r, i, j, a1, a2, neighbor_indices, p) ==
    IF a2.natom <= a1.natom \/ FarTerm(st, a1, a2) <= 0 \/ ContainTerm(a1, a2) <= 0
    THEN BuildProbesLoop(st, r, i, neighbor_indices, p + 1)
    ELSE IF Len(neighbor_indices) <= 1
    THEN [run |-> [r EXCEPT !.atoms[i + 1].accessible = TRUE,
                            !.atoms[j + 1].accessible = TRUE],
          res |-> Ok]
    ELSE BuildProbesEmit(st, build_probe_triplets(st, r, i, j), i, j, neighbor_indices, p)

BuildProbesLoop(st, r, i, neighbor_indices, p) ==
    IF p > Len(neighbor_indices) THEN [run |-> r, res |-> Ok]
    ELSE BuildProbesStep(st, r, i, neighbor_indices[p], At(r.atoms, i),
                         At(r.atoms, neighbor_indices[p]), neighbor_indices, p)

build_probes(st, r, i) == BuildProbesLoop(st, r, i, At(r.atoms, i).neighbor_indices, 1)

(***************************************************************************)
(* Contact surface of one atom.  The latitudes run from north (away from   *)
(* the first neighbour) to south (the ring), so the cap is the part of the *)
(* sphere whose expanded points lie outside the first neighbour's expanded *)
(* sphere; the other neighbours are the collision check.  The largest      *)
(* latitude circle is taken to have the atom's radius, and a sampler that  *)
(* fails does so before a dot of the atom is stored.                       *)
(***************************************************************************)
\* cosine of the angle from north_dir to south_dir: -t / R_i, t d = (d^2 + R_i^2 - R_j^2) / 2
CapCos(st, a1, a2) ==
    -(distance_squared(a1.coor, a2.coor) + Sq(a1.radius + st.rp) - Sq(a2.radius + st.rp))

CapSpan(st, atoms, i) ==
    LET a1 == At(atoms, i)
    IN  IF a1.neighbor_indices = <<>> THEN PiCentirad
        ELSE ArcSpan(CapCos(st, a1, At(atoms, a1.neighbor_indices[1])))

\* check_point_collision: the neighbours after the first
check_point_collision(st, atoms, pcen, neighbors) ==
    \E p \in 2..Len(neighbors) :
        distance_squared(pcen, At(atoms, neighbors[p]).coor)
            <= Sq(At(atoms, neighbors[p]).radius + st.rp)

\* the expanded points pcen of the samples of atom i that become dots
ContactPointsOf(st, atoms, neighbors, points) ==
    SelectSeq(points,
              LAMBDA pcen :
                  /\ neighbors # <<>> =>
                         distance_squared(pcen, At(atoms, neighbors[1]).coor)
                             > Sq(At(atoms, neighbors[1]).radius + st.rp)
                  /\ ~check_point_collision(st, atoms, pcen, neighbors))

ContactPoints(st, atoms, i) ==
    ContactPointsOf(st, atoms, At(atoms, i).neighbor_indices, ExpandedPoints(st, At(atoms, i)))

\* the error the construction on the first neighbour ends the atom with; Ok if none
FrameFailure(st, a1, neighbor) ==
    IF FarTerm(st, a1, neighbor) <= 0
    THEN ErrPair("ImagFar", a1.natom, neighbor.natom)
    ELSE IF ContainTerm(a1, neighbor) <= 0
    THEN ErrPair("ImagContain", a1.natom, neighbor.natom)
    ELSE IF FarTerm(st, a1, neighbor) * ContainTerm(a1, neighbor) <= 0
    THEN ErrPair("NonPositiveFrame", a1.natom, neighbor.natom)
    ELSE Ok

ContactSamplerFails(st, atoms, i, sdrad) ==
    \/ TooManySubdivisions(sdrad, CapSpan(st, atoms, i))
    \/ TooManySubdivisions(sdrad, 2 * PiCentirad)

ContactFailureOf(st, atoms, i, frame) ==
    IF frame.kind # "Ok" THEN frame
    ELSE IF ContactSamplerFails(st, atoms, i,
                                SqrtDensity[At(atoms, i).density] * At(atoms, i).radius)
    THEN Err("TooManySubdivisions")
    ELSE Ok

\* the error the first-neighbour construction or a sampler ends the atom with; Ok if none
ContactFailure(st, atoms, i) ==
    ContactFailureOf(st, atoms, i,
                     IF At(atoms, i).neighbor_indices = <<>> THEN Ok
                     ELSE FrameFailure(st, At(atoms, i),
                                       At(atoms, At(atoms, i).neighbor_indices[1])))

RECURSIVE AddDots(_, _, _, _, _, _)
AddDots(st, r, molecule, kind, atom_index, pcens) ==
    IF pcens = <<>> THEN r
    ELSE AddDots(st, add_dot(st, r, molecule, kind, Head(pcens), atom_index),
                 molecule, kind, atom_index, Tail(pcens))

EmitContact(st, r, i, fail, pts) ==
    IF fail.kind # "Ok" THEN [run |-> r, res |-> fail]
    ELSE [run |-> AddDots(st, [r EXCEPT !.results.dots.convex = @ + Len(pts)],
                          At(r.atoms, i).molecule, "Contact", i, pts),
          res |-> Ok]

\* serial engine: [run, res]
emit_contact_surface_for_atom(st, r, i) ==
    EmitContact(st, r, i, ContactFailure(st, r.atoms, i), ContactPoints(st, r.atoms, i))

ContactDots(st, atoms, i, pts) ==
    [k \in 1..Len(pts) |-> MakeDot(st, atoms, At(atoms, i).molecule, "Contact", pts[k], i)]

ContactTaskOf(st, atoms, i, a_i) ==
    IF a_i.attention = "Far" THEN <<>>
    ELSE IF a_i.attention = "Consider" /\ a_i.buried_by_indices = <<>> THEN <<>>
    ELSE IF ~a_i.accessible THEN <<>>
    ELSE IF ContactFailure(st, atoms, i).kind # "Ok" THEN <<>>
    ELSE ContactDots(st, atoms, i, ContactPoints(st, atoms, i))

\* parallel engine: the task of atom i, the dots it returns (none when it returns None)
ContactTask(st, atoms, i) == ContactTaskOf(st, atoms, i, At(atoms, i))

ContactStore(r, mol, dots) ==
    [r EXCEPT !.results.dots.convex = @ + Len(dots), !.dots[mol + 1] = @ \o dots]

RECURSIVE ContactMerge(_, _, _)
ContactMerge(st, r, i) ==
    IF i >= Len(r.atoms) THEN r
    ELSE ContactMerge(st, ContactStore(r, At(r.atoms, i).molecule, ContactTask(st, r.atoms, i)),
                      i + 1)

generate_contact_surface_parallel(st, r) == [run |-> ContactMerge(st, r, 0), res |-> Ok]

(***************************************************************************)
(* Concave surface of one probe.  The samples of the probe sphere are the  *)
(* offsets w of length rp from the probe centre; vp[k] = c_k - pijk has    *)
(* the expanded radius of atom k as its length, so every comparison is one *)
(* of integers.                                                            *)
(***************************************************************************)
IsLow(st, probe) == probe.height2.num < Sq(st.rp) * probe.height2.den

lowprobs(st, probes) == SelectSeq(Indices(Len(probes)), LAMBDA idx : IsLow(st, At(probes, idx)))

nears(st, probes, i) ==
    SelectSeq(lowprobs(st, probes),
              LAMBDA lp : /\ lp # i
                          /\ distance_squared(At(probes, i).point, At(probes, lp).point)
                                 <= 4 * Sq(st.rp))

\* vp[k] before normalisation, k = 1..3
ProbeVp(atoms, probe) == [k \in 1..3 |-> VSub(At(atoms, probe.atom_indices[k]).coor, probe.point)]

\* uijk . vp[k] > uijk . vp[m] for the normalised vp
DotGreater(st, atoms, probe, k, m) ==
    LET vp == ProbeVp(atoms, probe)
        Rk == At(atoms, probe.atom_indices[k]).radius + st.rp
        Rm == At(atoms, probe.atom_indices[m]).radius + st.rp
    IN  VDot(probe.alt, vp[k]) * Rm > VDot(probe.alt, vp[m]) * Rk

\* mm, as a position 1..3
ProbeMm(st, atoms, probe) ==
    LET m2 == IF DotGreater(st, atoms, probe, 2, 1) THEN 2 ELSE 1
    IN  IF DotGreater(st, atoms, probe, 3, m2) THEN 3 ELSE m2

\* sqrt(a) - r1 < sqrt(b) - r2
LessShifted(a, r1, b, r2) ==
    LET c == r1 - r2
    IN  IF c >= 0
        THEN LET l == a - b - c * c IN l < 0 \/ l * l < 4 * c * c * b
        ELSE LET l == b - a - c * c IN l > 0 /\ 4 * c * c * a < l * l

\* mc, as a position 1..3: best is the position that set dmin, 0 while dmin = 2 rp
RECURSIVE OwnerFrom(_, _, _, _, _, _)
OwnerFrom(st, atoms, probe, point, kk, best) ==
    IF kk > 3 THEN (IF best = 0 THEN 1 ELSE best)
    ELSE LET ak == At(atoms, probe.atom_indices[kk])
             d2 == distance_squared(point, ak.coor)
             ab == At(atoms, probe.atom_indices[IF best = 0 THEN 1 ELSE best])
             less == IF best = 0 THEN d2 < Sq(2 * st.rp + ak.radius)
                     ELSE LessShifted(d2, ak.radius,
                                      distance_squared(point, ab.coor), ab.radius)
         IN  OwnerFrom(st, atoms, probe, point, kk + 1, IF less THEN kk ELSE best)

check_probe_collision_idx(probes, point, near, r2) ==
    \E p \in 1..Len(near) : distance_squared(point, At(probes, near[p]).point) < r2

\* the offsets w of the samples of probe i that become dots
ConcaveOffsets(st, atoms, probes, i) ==
    LET probe == At(probes, i)
        vp == ProbeVp(atoms, probe)
        mm == ProbeMm(st, atoms, probe)
        Rmm == At(atoms, probe.atom_indices[mm]).radius + st.rp
        near == nears(st, probes, i)
        keep(w) ==
            /\ VDot(w, probe.alt) * Rmm <= VDot(vp[mm], probe.alt) * st.rp
            /\ VDot(w, VCross(vp[1], vp[2])) < 0
            /\ VDot(w, VCross(vp[2], vp[3])) < 0
            /\ VDot(w, VCross(vp[3], vp[1])) < 0
            /\ ~(IsLow(st, probe) /\ near # <<>>
                   /\ check_probe_collision_idx(probes, VAdd(w, probe.point), near, Sq(st.rp)))
    IN  SelectSeq(SphereDirs[st.rp], keep)

AllConsider(atoms, probe) ==
    \A k \in 1..3 : At(atoms, probe.atom_indices[k]).attention = "Consider"

ConcaveSamplerFails(st, atoms, probe) ==
    LET a == [k \in 1..3 |-> At(atoms, probe.atom_indices[k])]
        sdrad == SqrtDensity[MeanDensity3(a[1], a[2], a[3])] * st.rp
        mm == ProbeMm(st, atoms, probe)
    IN  \/ TooManySubdivisions(sdrad, ArcSpan(-VDot(ProbeVp(atoms, probe)[mm], probe.alt)))
        \/ TooManySubdivisions(sdrad, 2 * PiCentirad)

\* the dots of probe i, each with the molecule it is stored under
ConcaveDots(st, atoms, probes, i) ==
    LET probe == At(probes, i)
        ws == ConcaveOffsets(st, atoms, probes, i)
        dot(w) ==
            LET atom_index ==
                    probe.atom_indices[OwnerFrom(st, atoms, probe, VAdd(w, probe.point), 1, 0)]
                molecule == At(atoms, atom_index).molecule
            IN  [molecule |-> molecule,
                 dot |-> MakeDot(st, atoms, molecule, "Cavity", probe.point, atom_index)]
    IN  [k \in 1..Len(ws) |-> dot(ws[k])]

RECURSIVE StoreDots(_, _)
StoreDots(r, mdots) ==
    IF mdots = <<>> THEN r
    ELSE StoreDots([r EXCEPT !.results.dots.concave = @ + 1,
                             !.dots[Head(mdots).molecule + 1] = Append(@, Head(mdots).dot)],
                   Tail(mdots))

\* serial engine: [run, res]
RECURSIVE ConcaveLoop(_, _, _)
ConcaveLoop(st, r, i) ==
    IF i >= Len(r.probes) THEN [run |-> r, res |-> Ok]
    ELSE IF AllConsider(r.atoms, At(r.probes, i)) THEN ConcaveLoop(st, r, i + 1)
    ELSE IF ConcaveSamplerFails(st, r.atoms, At(r.probes, i))
    THEN [run |-> r, res |-> Err("TooManySubdivisions")]
    ELSE ConcaveLoop(st, StoreDots(r, ConcaveDots(st, r.atoms, r.probes, i)), i + 1)

generate_concave_surface(st, r) == ConcaveLoop(st, r, 0)

\* parallel engine: the task of probe i
ConcaveTask(st, atoms, probes, i) ==
    IF AllConsider(atoms, At(probes, i)) THEN <<>>
    ELSE IF ConcaveSamplerFails(st, atoms, At(probes, i)) THEN <<>>
    ELSE ConcaveDots(st, atoms, probes, i)

RECURSIVE ConcaveMerge(_, _, _, _)
ConcaveMerge(st, r, atoms, i) ==
    IF i >= Len(r.probes) THEN r
    ELSE ConcaveMerge(st, StoreDots(r, ConcaveTask(st, atoms, r.probes, i)), atoms, i + 1)

generate_concave_surface_parallel(st, r) ==
    [run |-> ConcaveMerge(st, r, r.atoms, 0), res |-> Ok]

(***************************************************************************)
(* calc                                                                    *)
(***************************************************************************)
RECURSIVE AtomLoop(_, _, _)
\* after the contact surface of atom i: c is [run, res]
AfterContact(st, c, i) ==
    IF c.res.kind # "Ok" THEN c ELSE AtomLoop(st, c.run, i + 1)

\* after build_probes of atom i: b is [run, res]
AfterProbes(st, b, i) ==
    IF b.res.kind # "Ok" THEN b
    ELSE IF ~st.enable_parallel /\ At(b.run.atoms, i).accessible
    THEN AfterContact(st, emit_contact_surface_for_atom(st, b.run, i), i)
    ELSE AtomLoop(st, b.run, i + 1)

\* after the neighbour search of atom i: n is [run, res]
AfterNeighbors(st, n, i) ==
    IF n.res.kind # "Ok" THEN n
    ELSE IF At(n.run.atoms, i).attention = "Consider"
              /\ At(n.run.atoms, i).buried_by_indices = <<>>
    THEN AtomLoop(st, n.run, i + 1)
    ELSE AfterProbes(st, build_probes(st, n.run, i), i)

AtomLoop(st, r, i) ==
    IF i >= Len(r.atoms) THEN [run |-> r, res |-> Ok]
    ELSE IF At(r.atoms, i).attention = "Far" THEN AtomLoop(st, r, i + 1)
    ELSE AfterNeighbors(st, IF st.enable_parallel THEN [run |-> r, res |-> Ok]
                            ELSE find_neighbors_for_atom_by_index(st, r, i), i)

\* the concave surface: p3 is [run, res] of the phases before it
ConcavePhase(st, p3) ==
    IF p3.res.kind # "Ok" \/ st.rp <= 0 THEN p3
    ELSE IF st.enable_parallel THEN generate_concave_surface_parallel(st, p3.run)
    ELSE generate_concave_surface(st, p3.run)

\* the contact surface of the parallel engine: p2 is [run, res] of the atom loop
ContactPhase(st, p2) ==
    IF p2.res.kind # "Ok" \/ ~st.enable_parallel THEN p2
    ELSE generate_contact_surface_parallel(st, p2.run)

\* the atom loop: p1 is [run, res] of the neighbour precompute
AtomPhase(st, p1) ==
    IF p1.res.kind # "Ok" THEN p1 ELSE AtomLoop(st, p1.run, 0)

NeighborPhase(st, r0) ==
    IF st.enable_parallel THEN compute_neighbors_all_parallel(st, r0)
    ELSE [run |-> r0, res |-> Ok]

calc_dots_for_all_atoms(st, r) ==
    ConcavePhase(st, ContactPhase(st, AtomPhase(st, NeighborPhase(st,
        [r EXCEPT !.radmax = MaxOf({0} \cup {r.atoms[k].radius : k \in 1..Len(r.atoms)})]))))

generate_molecular_surfaces(st, r) ==
    IF r.atoms = <<>> THEN [run |-> r, res |-> Err("NoAtoms")]
    ELSE calc_dots_for_all_atoms(st, r)

\* calc without the checks for an empty atom store
calc_WithoutEmptyCheck(st, r) ==
    calc_dots_for_all_atoms(st, assign_attention_numbers(st, [r EXCEPT !.results.valid = 0]))

calc(st, r) ==
    LET r0 == [r EXCEPT !.results.valid = 0]
    IN  IF r0.atoms = <<>> THEN [run |-> r0, res |-> Err("NoAtoms")]
        ELSE generate_molecular_surfaces(st, assign_attention_numbers(st, r0))

(***************************************************************************)
(* The engine as a state machine.  settings, radii and run are the fields  *)
(* of SurfaceGenerator.  calcs counts the calc calls since the last reset, *)
(* last records the operation that produced the state, its argument and    *)
(* its result, and computed holds results, dots and probes as the first    *)
(* successful calc since the last reset left them.                         *)
(***************************************************************************)
Snapshot(r) == [results |-> r.results, dots |-> r.dots, probes |-> r.probes]

Init ==
    /\ settings \in SettingsChoices
    /\ radii = <<>>
    /\ run = DefaultRunState
    /\ calcs = 0
    /\ last = [op |-> "new", arg |-> <<>>, res |-> Ok]
    /\ computed = <<>>

AddAtom ==
    \E input \in AtomInputs :
        /\ Len(run.atoms) < MaxAtoms
        /\ LET out == add_atom(settings, init(radii), run, input.molecule, input.atom)
           IN  /\ run' = out.run
               /\ last' = [op |-> "add_atom", arg |-> <<input>>, res |-> out.res]
        /\ radii' = init(radii)
        /\ UNCHANGED <<settings, calcs, computed>>

Calc ==
    /\ calcs < MaxCalcs
    /\ LET out == calc(settings, run)
       IN  /\ run' = out.run
           /\ last' = [op |-> "calc", arg |-> <<>>, res |-> out.res]
           /\ computed' = IF computed = <<>> /\ out.res.kind = "Ok"
                          THEN <<Snapshot(out.run)>> ELSE computed
    /\ radii' = init(radii)
    /\ calcs' = calcs + 1
    /\ UNCHANGED settings

Reset ==
    /\ run' = reset(run)
    /\ calcs' = 0
    /\ last' = [op |-> "reset", arg |-> <<>>, res |-> Ok]
    /\ computed' = <<>>
    /\ UNCHANGED <<settings, radii>>

Next == AddAtom \/ Calc \/ Reset

Spec == Init /\ [][Next]_vars

(***************************************************************************)
(* The radius resolver as a state machine of its own: the table is loaded  *)
(* by init or replaced by set_radii, and assign_atom_radius is applied to  *)
(* atoms drawn from a bounded set.  last records the call, its arguments   *)
(* and what it returned.                                                   *)
(***************************************************************************)
MaxStrLen == 3

Chars == {"C", "A", " ", "*"}

Strings == UNION {[1..n -> Chars] : n \in 0..MaxStrLen}

RadiiTableB ==
    << [residue |-> <<"A", "L", "A">>, atom |-> <<"C", "*">>, radius |-> 3],
       [residue |-> <<"A", "L", "A">>, atom |-> <<"C", "A", " ">>, radius |-> 2],
       [residue |-> <<"*", "*", "*">>, atom |-> <<"N">>, radius |-> 1],
       [residue |-> <<"*", "*", "*">>, atom |-> <<"N", " ">>, radius |-> 4],
       [residue |-> <<"*", "*", "*", " ">>, atom |-> <<" ", "C">>, radius |-> 5],
       [residue |-> <<"*", "*", "*">>, atom |-> <<"C">>, radius |-> 6] >>

RadiiTableC == << [residue |-> <<"G", "L", "*">>, atom |-> <<"C", "A">>, radius |-> 1] >>

TableChoices == {RadiiTable, RadiiTableB, RadiiTableC}

\* what ATOMIC_RADII / ATOMIC_RADII_PATH may name
FileChoices ==
    { [kind |-> "missing"],
      [kind |-> "invalid"],
      [kind |-> "json",
       recs |-> << [residue |-> <<"*", "*", "*">>, atom |-> <<"C">>, radius |-> 0],
                   [residue |-> <<"*", "*", "*">>, atom |-> <<"C">>, radius |-> 3] >>] }

EnvChoices ==
    {[set |-> FALSE, file |-> [kind |-> "missing"]]}
        \cup {[set |-> TRUE, file |-> f] : f \in FileChoices}

ResidueChoices == {<<"A", "L", "A">>, <<"G", "L", "Y">>, <<"G", "L", "Y", " ">>}

NameChoices ==
    {<<"C", "A">>, <<"C", "B">>, <<"N">>, <<"N", " ", " ">>, <<"1", "H">>, <<" ", "c", "a">>,
     <<"1", "2">>}

RadiiInit ==
    /\ settings \in {DefaultSettings, [DefaultSettings EXCEPT !.use_atom_type_radius = TRUE]}
    /\ radii = <<>>
    /\ run = DefaultRunState
    /\ calcs = 0
    /\ last = [op |-> "new", arg |-> <<>>, res |-> Ok]
    /\ computed = <<>>

InitEngine ==
    \E env \in EnvChoices :
        /\ radii' = init_env(radii, env).radii
        /\ last' = [op |-> "init", arg |-> <<env, radii>>, res |-> init_env(radii, env).res]
        /\ UNCHANGED <<settings, run, calcs, computed>>

SetRadii ==
    \E tab \in TableChoices :
        /\ radii' = tab
        /\ last' = [op |-> "set_radii", arg |-> <<tab>>, res |-> Ok]
        /\ UNCHANGED <<settings, run, calcs, computed>>

AssignAtomRadius ==
    \E residue \in ResidueChoices, name \in NameChoices, atr \in {0, 2} :
        /\ last' = [op |-> "assign_atom_radius",
                    arg |-> <<NewAtom(<<0, 0, 0>>, 0, atr, residue, name)>>,
                    res |-> assign_atom_radius(settings, radii,
                                               NewAtom(<<0, 0, 0>>, 0, atr, residue, name))]
        /\ UNCHANGED <<settings, radii, run, calcs, computed>>

RadiiSpec == RadiiInit /\ [][InitEngine \/ SetRadii \/ AssignAtomRadius]_vars

(***************************************************************************)
(* wildcard_match on its own: a query and a pattern are drawn, and the     *)
(* one step applies the function to them.                                  *)
(***************************************************************************)
MatchInit ==
    /\ settings = DefaultSettings
    /\ radii = <<>>
    /\ run = DefaultRunState
    /\ calcs = 0
    /\ last \in {[op |-> "input", arg |-> <<query, pattern>>, res |-> FALSE] :
                      query \in Strings, pattern \in Strings}
    /\ computed = <<>>

WildcardMatch ==
    /\ last.op = "input"
    /\ last' = [op |-> "wildcard_match", arg |-> last.arg,
                res |-> wildcard_match(last.arg[1], last.arg[2])]
    /\ UNCHANGED <<settings, radii, run, calcs, computed>>

MatchSpec == MatchInit /\ [][WildcardMatch]_vars

\* add_atom for each input of a sequence, in order (failed calls leave the run as it is)
RECURSIVE AddAll(_, _, _, _)
AddAll(st, tab, r, inputs) ==
    IF inputs = <<>> THEN r
    ELSE AddAll(st, tab, add_atom(st, tab, r, Head(inputs).molecule, Head(inputs).atom).run,
                Tail(inputs))

(***************************************************************************)
(* The sort of a neighbour list on its own.  sort_unstable_by promises a   *)
(* list in ascending order of the key and no order among elements of equal *)
(* key: SortOutcomes is the set of lists it may return.  (The engine above *)
(* uses SortByDistance, the outcome that keeps equal elements in insertion *)
(* order.)  A store of atoms is drawn, and a step sorts the neighbour list *)
(* of one of its atoms.                                                    *)
(***************************************************************************)
SortOutcomes(atoms, center, list) ==
    {s \in [1..Len(list) -> SeqToSet(list)] :
         /\ SeqToSet(s) = SeqToSet(list)
         /\ \A p, q \in 1..Len(s) :
                p < q => distance_squared(At(atoms, s[p]).coor, center)
                             <= distance_squared(At(atoms, s[q]).coor, center)}

MaxSortAtoms == 3

SortInputs ==
    { [molecule |-> 0, atom |-> NewAtom(<<2, 1, 0>>, 2, 2, <<"A", "L", "A">>, <<"C", "A">>)],
      [molecule |-> 0, atom |-> NewAtom(<<-2, 1, 0>>, 2, 2, <<"A", "L", "A">>, <<"C", "A">>)],
      [molecule |-> 0, atom |-> NewAtom(<<0, 1, 0>>, 2, 2, <<"A", "L", "A">>, <<"C", "A">>)],
      [molecule |-> 0, atom |-> NewAtom(<<0, 3, 0>>, 2, 2, <<"A", "L", "A">>, <<"C", "A">>)],
      [molecule |-> 1, atom |-> NewAtom(<<0, 2, 4>>, 2, 2, <<"A", "L", "A">>, <<"N">>)] }

SortInit ==
    /\ settings = DefaultSettings
    /\ radii = RadiiTable
    /\ run \in {AddAll(DefaultSettings, RadiiTable, DefaultRunState, q) :
                   q \in UNION {[1..n -> SortInputs] : n \in 1..MaxSortAtoms}}
    /\ calcs = 0
    /\ last = [op |-> "new", arg |-> <<>>, res |-> <<>>]
    /\ computed = <<>>

SortNeighbors ==
    \E i \in 0..(Len(run.atoms) - 1) :
        \E s \in SortOutcomes(run.atoms, At(run.atoms, i).coor,
                              ScanList(settings, run.atoms, i, Len(run.atoms), TRUE)) :
            /\ last' = [op |-> "sort_unstable_by", arg |-> <<i>>, res |-> s]
            /\ UNCHANGED <<settings, radii, run, calcs, computed>>

SortSpec == SortInit /\ [][SortNeighbors]_vars

(***************************************************************************)
(* The three parallel phases of calc task by task.  The store is drawn as  *)
(* calc has it when compute_neighbors_all_parallel starts.  last.op is the *)
(* phase, last.arg holds that store and the number of phases so far whose  *)
(* tasks did not complete in index order, and last.res holds what the      *)
(* completed tasks of the phase returned, in completion order.  A task     *)
(* reads run and writes only what it returns.  The driver waits for all    *)
(* tasks, or for one that failed, takes the returned values in index order *)
(* (collect) and stores them; between the neighbour phase and the contact  *)
(* phase it runs the atom loop on its own.                                 *)
(***************************************************************************)
\* the tasks of 0..(n - 1) that have not completed
Pending(done, n) == {i \in 0..(n - 1) : \A k \in 1..Len(done) : done[k].task # i}

InIndexOrder(done) == \A p, q \in 1..Len(done) : p < q => done[p].task < done[q].task

\* collect() on the tasks' results in completion order: the result vector is in index order
CollectAsCompleted(done) == done

Collect(done) ==
    [k \in 1..Len(done) |-> done[CHOOSE p \in 1..Len(done) : done[p].task = k - 1]]

ParStart(st, r) ==
    [assign_attention_numbers(st, [r EXCEPT !.results.valid = 0])
        EXCEPT !.radmax = MaxOf({0} \cup {r.atoms[k].radius : k \in 1..Len(r.atoms)})]

ParInit ==
    /\ settings \in {st \in SettingsChoices : st.enable_parallel}
    /\ radii = RadiiTable
    /\ run \in {ParStart(settings, r) :
                   r \in {AddAll(settings, RadiiTable, DefaultRunState, q) :
                             q \in UNION {[1..n -> AtomInputs] : n \in 1..MaxAtoms}}
                         \ {DefaultRunState}}
    /\ calcs = 0
    /\ last = [op |-> "neighbors", arg |-> <<run, 0>>, res |-> <<>>]
    /\ computed = <<>>

\* the driver moves on to the phase op
NextPhase(op) ==
    [op |-> op,
     arg |-> <<last.arg[1], last.arg[2] + IF InIndexOrder(last.res) THEN 0 ELSE 1>>,
     res |-> <<>>]

NeighborTaskDone ==
    /\ last.op = "neighbors"
    /\ \E i \in Pending(last.res, Len(run.atoms)) :
           last' = [last EXCEPT !.res =
                       Append(@, IF FirstCoincident(run.atoms, i) >= 0
                                 THEN [task |-> i, out |-> At(run.atoms, i),
                                       res |-> ErrPair("Coincident", At(run.atoms, i).natom,
                                                  At(run.atoms, FirstCoincident(run.atoms, i)).natom)]
                                 ELSE [task |-> i, out |-> NeighborTask(settings, run.atoms, i),
                                       res |-> Ok])]
    /\ UNCHANGED <<settings, radii, run, calcs, computed>>

\* `results?` and the loop that stores the lists
NeighborsMerge ==
    /\ last.op = "neighbors"
    /\ \/ /\ \E k \in 1..Len(last.res) : last.res[k].res.kind # "Ok"
          /\ \E k \in 1..Len(last.res) :
                 /\ last.res[k].res.kind # "Ok"
                 /\ last' = [NextPhase("done") EXCEPT !.res = last.res[k].res]
          /\ run' = run
       \/ /\ Pending(last.res, Len(run.atoms)) = {}
          /\ \A k \in 1..Len(last.res) : last.res[k].res.kind = "Ok"
          /\ run' = [run EXCEPT !.atoms =
                        [k \in 1..Len(run.atoms) |->
                            NeighborTaskStore(run.atoms[k],
                                              Collect(last.res)[k].out.neighbor_indices,
                                              Collect(last.res)[k].out.buried_by_indices)]]
          /\ last' = NextPhase("probes")
    /\ UNCHANGED <<settings, radii, calcs, computed>>

\* the atom loop of the parallel engine: build_probes for every atom, no task
BuildProbes ==
    /\ last.op = "probes"
    /\ LET out == AtomLoop(settings, run, 0)
       IN  /\ run' = out.run
           /\ last' = IF out.res.kind # "Ok" THEN [NextPhase("done") EXCEPT !.res = out.res]
                      ELSE NextPhase("contact")
    /\ UNCHANGED <<settings, radii, calcs, computed>>

ContactTaskDone ==
    /\ last.op = "contact"
    /\ \E i \in Pending(last.res, Len(run.atoms)) :
           last' = [last EXCEPT !.res =
                       Append(@, [task |-> i, mol |-> At(run.atoms, i).molecule,
                                  out |-> ContactTask(settings, run.atoms, i)])]
    /\ UNCHANGED <<settings, radii, run, calcs, computed>>

RECURSIVE ContactAppend(_, _)
ContactAppend(r, results) ==
    IF results = <<>> THEN r
    ELSE ContactAppend(ContactStore(r, Head(results).mol, Head(results).out), Tail(results))

ContactMergeDone ==
    /\ last.op = "contact"
    /\ Pending(last.res, Len(run.atoms)) = {}
    /\ run' = ContactAppend(run, Collect(last.res))
    /\ last' = IF settings.rp > 0 /\ run.probes # <<>> THEN NextPhase("concave")
               ELSE [NextPhase("done") EXCEPT !.res = Ok]
    /\ UNCHANGED <<settings, radii, calcs, computed>>

ConcaveTaskDone ==
    /\ last.op = "concave"
    /\ \E i \in Pending(last.res, Len(run.probes)) :
           last' = [last EXCEPT !.res =
                       Append(@, [task |-> i,
                                  out |-> ConcaveTask(settings, run.atoms, run.probes, i)])]
    /\ UNCHANGED <<settings, radii, run, calcs, computed>>

RECURSIVE ConcaveAppend(_, _)
ConcaveAppend(r, results) ==
    IF results = <<>> THEN r
    ELSE ConcaveAppend(StoreDots(r, Head(results).out), Tail(results))

ConcaveMergeDone ==
    /\ last.op = "concave"
    /\ Pending(last.res, Len(run.probes)) = {}
    /\ run' = ConcaveAppend(run, Collect(last.res))
    /\ last' = [NextPhase("done") EXCEPT !.res = Ok]
    /\ UNCHANGED <<settings, radii, calcs, computed>>

ParSpec ==
    ParInit /\ [][NeighborTaskDone \/ NeighborsMerge \/ BuildProbes \/ ContactTaskDone
                      \/ ContactMergeDone \/ ConcaveTaskDone \/ ConcaveMergeDone]_vars

(***************************************************************************)
(* The arc sampler on its own, in exact arithmetic.  Angles are counted in *)
(* eighths of a radian and sd is sqrt(density), so that delta, 8 / (sd *   *)
(* rad) eighths, and delta / 2 are whole numbers for the inputs drawn.  A  *)
(* point cen + x rad cos(a) + y rad sin(a) is the record [rad, a].  The    *)
(* loop's 100000 iterations are LoopCap here.  The value returned is       *)
(* [res, ps, points]: the result, the per-sample length as the fraction    *)
(* num / den of eighths, and the buffer as the call leaves it.             *)
(***************************************************************************)
LoopCap == 3

MaxAngle == 32

Delta(rad, sd) == 8 \div (sd * rad)

\* for _ in 0..100000 { a += delta; if a > angle { break; } points.push(..) }: [a, points]
RECURSIVE ArcLoop(_, _, _, _, _, _)
ArcLoop(rad, a, delta, angle, points, left) ==
    IF left = 0 THEN [a |-> a, points |-> points]
    ELSE IF a + delta > angle THEN [a |-> a + delta, points |-> points]
    ELSE ArcLoop(rad, a + delta, delta, angle,
                 Append(points, [rad |-> rad, a |-> a + delta]), left - 1)

\* after the loop
ArcResult(rad, delta, angle, loop) ==
    IF loop.a + delta < angle
    THEN [res |-> Err("TooManySubdivisions"), ps |-> [num |-> 0, den |-> 1],
          points |-> loop.points]
    ELSE [res |-> Ok,
          ps |-> IF loop.points # <<>> THEN [num |-> rad * angle, den |-> Len(loop.points)]
                 ELSE [num |-> 0, den |-> 1],
          points |-> loop.points]

sample_arc_segment(rad, sd, angle, points) ==
    IF rad <= 0 THEN [res |-> Ok, ps |-> [num |-> 0, den |-> 1], points |-> <<>>]
    ELSE ArcResult(rad, Delta(rad, sd), angle,
                   ArcLoop(rad, -(Delta(rad, sd) \div 2), Delta(rad, sd), angle, <<>>, LoopCap))

geom_sample_arc_segment(rad, sd, angle, points) ==
    IF rad <= 0 THEN [res |-> Ok, ps |-> [num |-> 0, den |-> 1], points |-> <<>>]
    ELSE ArcResult(rad, Delta(rad, sd), angle,
                   ArcLoop(rad, -(Delta(rad, sd) \div 2), Delta(rad, sd), angle, <<>>, LoopCap))

SampleInit ==
    /\ settings = DefaultSettings
    /\ radii = <<>>
    /\ run = DefaultRunState
    /\ calcs = 0
    /\ \E rad \in {-1, 0, 1, 2} : \E sd \in {1, 2} : \E angle \in 0..MaxAngle :
           \E points \in {<<>>, <<[rad |-> 1, a |-> 4]>>} :
               last = [op |-> "new", arg |-> <<rad, sd, angle, points>>, res |-> <<>>]
    /\ computed = <<>>

SampleArcSegment ==
    /\ last' = [op |-> "sample_arc_segment", arg |-> last.arg,
                res |-> sample_arc_segment(last.arg[1], last.arg[2], last.arg[3], last.arg[4])]
    /\ UNCHANGED <<settings, radii, run, calcs, computed>>

GeomSampleArcSegment ==
    /\ last' = [op |-> "geom_sample_arc_segment", arg |-> last.arg,
                res |-> geom_sample_arc_segment(last.arg[1], last.arg[2], last.arg[3],
                                                last.arg[4])]
    /\ UNCHANGED <<settings, radii, run, calcs, computed>>

SampleSpec == SampleInit /\ [][SampleArcSegment \/ GeomSampleArcSegment]_vars

(***************************************************************************)
(* Properties                                                              *)
(***************************************************************************)
AllDotsOf(r) == r.dots[1] \o r.dots[2]

MoleculesOf(atoms) == {atoms[k].molecule : k \in 1..Len(atoms)}

WithParallel(st, b) == [st EXCEPT !.enable_parallel = b]

\* C1: on a loaded atom set, the serial and the parallel engine both succeed or both fail,
\* and on success hold the same numbers of dots per molecule, of probes and of atoms per
\* molecule.
C1_EnginesAgree ==
    (calcs = 0 /\ run.atoms # <<>>) =>
        LET s == calc(WithParallel(settings, FALSE), run)
            p == calc(WithParallel(settings, TRUE), run)
        IN  /\ (s.res.kind = "Ok") = (p.res.kind = "Ok")
            /\ s.res.kind = "Ok" =>
                   /\ Len(s.run.dots[1]) = Len(p.run.dots[1])
                   /\ Len(s.run.dots[2]) = Len(p.run.dots[2])
                   /\ Len(s.run.probes) = Len(p.run.probes)
                   /\ s.run.results.surfaces[1].n_atoms = p.run.results.surfaces[1].n_atoms
                   /\ s.run.results.surfaces[2].n_atoms = p.run.results.surfaces[2].n_atoms

\* C2: once a calc has succeeded, results, both dot buffers and the probe list stay as that
\* calc left them until reset, whatever add_atom or calc calls follow.
C2_ComputedIsReadOnly ==
    computed # <<>> => Snapshot(run) = computed[1]

\* C3: calc on an empty atom store returns NoAtoms and leaves no probes and no dots.
C3_EmptyStoreIsNoAtoms ==
    (last.op = "calc" /\ run.atoms = <<>>) =>
        /\ last.res.kind = "NoAtoms"
        /\ run.probes = <<>>
        /\ run.dots = <<<<>>, <<>>>>

C3_Witness ==
    /\ last.op = "calc"
    /\ run.atoms = <<>>
    /\ last.res.kind = "NoAtoms"
    /\ calcs = MaxCalcs

\* the radius add_atom tests: the one handed in, or the one resolution sets (0 if it fails)
ResolvedRadius(st, tab, atom0) ==
    IF atom0.radius > 0 THEN atom0.radius
    ELSE LET a == assign_atom_radius(st, tab, atom0)
         IN  IF a.res.kind = "Ok" THEN a.atom.radius ELSE 0

\* C4: add_atom succeeds exactly when the resolved radius is positive, and otherwise fails
\* with an error of kind MissingRadius.
C4_MissingRadius ==
    last.op = "add_atom" =>
        LET rad == ResolvedRadius(settings, radii, last.arg[1].atom)
        IN  /\ (last.res.kind = "Ok") = (rad > 0)
            /\ ~(rad > 0) => last.res.kind = "MissingRadius"

\* C5: the atom at position k of the store (k from 0) has natom k + 1, and the next ordinal
\* is one more than the number of stored atoms, so that a failed add_atom uses none up.
C5_Ordinals ==
    /\ run.results.n_atoms = Len(run.atoms)
    /\ \A k \in 0..(Len(run.atoms) - 1) : At(run.atoms, k).natom = k + 1

C5_Witness ==
    /\ last.op = "add_atom"
    /\ last.res.kind # "Ok"
    /\ Len(run.atoms) >= 2
    /\ MoleculesOf(run.atoms) = {0, 1}
    /\ calcs > 0

\* what a caller can see of a run: everything but the scratch value radmax
Visible(out) == [out EXCEPT !.run.radmax = 0]

FreshProbeDepth == 2

InputSeqs == UNION {[1..n -> AtomInputs] : n \in 0..FreshProbeDepth}

\* C6: reset leaves the atom store, the probe list, the dot buffers and the trimmed-dot lists
\* empty and results at its default, and add_atom and calc then act as on a fresh engine
\* with the same settings and radii table.
C6_ResetIsEmpty ==
    last.op = "reset" =>
        /\ run.atoms = <<>>
        /\ run.probes = <<>>
        /\ run.dots = <<<<>>, <<>>>>
        /\ run.trimmed_dots = <<<<>>, <<>>>>
        /\ run.results = DefaultResults
        /\ \A i \in AtomInputs :
               LET a == add_atom(settings, init(radii), run, i.molecule, i.atom)
               IN  a.res.kind = "Ok" => At(a.run.atoms, 0).natom = 1
        /\ \A q \in InputSeqs :
               Visible(calc(settings, AddAll(settings, init(radii), run, q)))
                   = Visible(calc(settings, AddAll(settings, init(radii), DefaultRunState, q)))

C6_Witness ==
    /\ last.op = "reset"
    /\ run.radmax > 0
    /\ run.atoms = <<>>

HasCoincidentPair(atoms) ==
    \E i, j \in 1..Len(atoms) :
        /\ i # j
        /\ atoms[i].molecule = atoms[j].molecule
        /\ distance_squared(atoms[i].coor, atoms[j].coor) * 10000 <= 1

\* C7: calc on an atom set holding two atoms of one molecule at squared distance <= 1e-4
\* fails with the Coincident error, in both engines and whatever the atoms' attention.
C7_CoincidentIsAnError ==
    (last.op = "calc" /\ HasCoincidentPair(run.atoms)) => last.res.kind = "Coincident"

Separated(st, atoms) ==
    \A i, j \in 1..Len(atoms) :
        atoms[i].molecule # atoms[j].molecule
            => distance_squared(atoms[i].coor, atoms[j].coor) > Sq(st.separation_cutoff)

\* C8: when every atom of molecule 0 is farther than separation_cutoff from every atom of
\* molecule 1 and no two atoms of a molecule coincide, calc succeeds, every atom is Far,
\* there are no probes and no dots, and Sc and the trimmed areas are 0.
C8_EmptyInterface ==
    (/\ last.op = "calc"
     /\ run.atoms # <<>>
     /\ Separated(settings, run.atoms)
     /\ ~HasCoincidentPair(run.atoms)) =>
        /\ last.res.kind = "Ok"
        /\ \A k \in 1..Len(run.atoms) : run.atoms[k].attention = "Far"
        /\ run.probes = <<>>
        /\ run.dots = <<<<>>, <<>>>>
        /\ run.results.sc = 0
        /\ run.results.area = 0
        /\ \A m \in 1..2 : run.results.surfaces[m].trimmed_area = 0

C8_Witness ==
    /\ last.op = "calc"
    /\ last.res.kind = "Ok"
    /\ MoleculesOf(run.atoms) = {0, 1}
    /\ Separated(settings, run.atoms)
    /\ ~HasCoincidentPair(run.atoms)

\* C9: after the first calc on a loaded atom set, every dot in either buffer is flagged
\* buried exactly when some atom b of the other molecule has
\* |pcen - b.coor|^2 <= (b.radius + rp)^2, over all atoms of that molecule.
C9_BuriedFlag ==
    (last.op = "calc" /\ calcs = 1) =>
        \A m \in 1..2 : \A k \in 1..Len(run.dots[m]) :
            LET d == run.dots[m][k]
            IN  d.buried <=>
                    \E b \in 1..Len(run.atoms) :
                        /\ run.atoms[b].molecule = 2 - m
                        /\ distance_squared(d.pcen, run.atoms[b].coor)
                               <= Sq(run.atoms[b].radius + settings.rp)

C9_Witness ==
    /\ last.op = "calc"
    /\ calcs = 1
    /\ \A kind \in {"Contact", "Reentrant", "Cavity"} :
           /\ \E k \in 1..Len(AllDotsOf(run)) :
                  AllDotsOf(run)[k].kind = kind /\ AllDotsOf(run)[k].buried
           /\ \E k \in 1..Len(AllDotsOf(run)) :
                  AllDotsOf(run)[k].kind = kind /\ ~AllDotsOf(run)[k].buried

\* a contact task or a concave task of the parallel engine whose sampler returned
\* TooManySubdivisions, given the atoms and probes the tasks read
SamplerTaskFailed(st, r) ==
    \/ \E i \in 0..(Len(r.atoms) - 1) :
           /\ At(r.atoms, i).attention # "Far"
           /\ At(r.atoms, i).accessible
           /\ ContactFailure(st, r.atoms, i).kind = "TooManySubdivisions"
    \/ \E i \in 0..(Len(r.probes) - 1) :
           /\ ~AllConsider(r.atoms, At(r.probes, i))
           /\ ConcaveSamplerFails(st, r.atoms, At(r.probes, i))

\* C10: in the parallel engine a calc in which a task fails, such as one whose sampler
\* returns TooManySubdivisions, returns an error.
C10_TaskFailureIsAnError ==
    (last.op = "calc" /\ settings.enable_parallel /\ SamplerTaskFailed(settings, run))
        => last.res.kind # "Ok"

CalcErrors == {"Coincident", "ImagFar", "ImagContain", "NonPositiveFrame", "TooManySubdivisions"}

\* C11: a calc that returns one of the errors Coincident, ImagFar, ImagContain,
\* NonPositiveFrame, TooManySubdivisions leaves the probe list and both dot buffers as they
\* were before the call.
C11_FailedCalcLeavesNothing ==
    [][(calcs' = calcs + 1 /\ last'.res.kind \in CalcErrors)
           => (run'.probes = run.probes /\ run'.dots = run.dots)]_vars

MinOf(S) == CHOOSE x \in S : \A y \in S : x <= y

\* s without its trailing spaces
Stripped(s) ==
    SubSeq(s, 1, CHOOSE n \in 0..Len(s) :
                     /\ \A k \in (n + 1)..Len(s) : s[k] = " "
                     /\ n > 0 => s[n] # " ")

StarsOf(p) == {k \in 1..Len(p) : p[k] = "*"}

\* C12: with trailing spaces stripped from query and pattern, wildcard_match is true for
\* every query when the pattern starts with '*'; otherwise, when the pattern has its first
\* '*' at position p (from 0), it is true exactly when the query has at least p characters
\* and its first p characters are the pattern's; otherwise exactly when the two are equal.
C12_WildcardMatch ==
    last.op = "wildcard_match" =>
        LET q == Stripped(last.arg[1])
            p == Stripped(last.arg[2])
        IN  last.res =
                IF 1 \in StarsOf(p) THEN TRUE
                ELSE IF StarsOf(p) # {}
                THEN /\ Len(q) >= MinOf(StarsOf(p)) - 1
                     /\ \A k \in 1..(MinOf(StarsOf(p)) - 1) : q[k] = p[k]
                ELSE q = p

C12_Witness ==
    /\ last.op = "wildcard_match"
    /\ last.res = TRUE
    /\ Len(last.arg[1]) > Len(Stripped(last.arg[1]))
    /\ StarsOf(last.arg[2]) # {}
    /\ MinOf(StarsOf(last.arg[2])) = 3

\* the records of a table both of whose patterns match the atom
FullMatches(tab, atom) ==
    {k \in 1..Len(tab) : /\ wildcard_match(atom.residue, tab[k].residue)
                         /\ wildcard_match(atom.atom, tab[k].atom)}

AlphaPositions(name) == {k \in 1..Len(name) : is_ascii_alphabetic(name[k])}

\* the generic records of a table whose atom field is the uppercased first alphabetic
\* character of the atom name
ElementMatches(tab, atom) ==
    IF AlphaPositions(atom.atom) = {} THEN {}
    ELSE {k \in 1..Len(tab) :
              /\ Len(trim(tab[k].residue)) >= 3
              /\ \A n \in 1..3 : trim(tab[k].residue)[n] = "*"
              /\ trim(tab[k].atom)
                     = <<to_ascii_uppercase(atom.atom[MinOf(AlphaPositions(atom.atom))])>>}

C14_OverrideFailureIsAnError ==
    (/\ last.op = "init"
     /\ last.arg[2] = <<>>
     /\ last.arg[1].set
     /\ last.arg[1].file.kind # "json") => last.res.kind = "Io"

\* the squared distances from atom k (from 1) to the atoms of the other molecule
CrossDistances(atoms, k) ==
    {distance_squared(atoms[k].coor, atoms[j].coor) :
         j \in {j \in 1..Len(atoms) : atoms[j].molecule # atoms[k].molecule}}

AtomsIn(atoms, m, attention) ==
    {k \in 1..Len(atoms) : atoms[k].molecule = m /\ atoms[k].attention = attention}

\* C15: after a calc on a loaded atom set, every atom is Far when its least squared distance
\* to an atom of the other molecule is >= separation_cutoff^2 or the other molecule has no
\* atom, and Buried otherwise; none is Consider; and n_blocked_atoms and n_buried_atoms of
\* each molecule count its Far and its Buried atoms, also after a second calc.
C15_AttentionAndCounters ==
    (last.op = "calc" /\ run.atoms # <<>>) =>
        /\ \A k \in 1..Len(run.atoms) :
               run.atoms[k].attention =
                   IF \/ CrossDistances(run.atoms, k) = {}
                      \/ MinOf(CrossDistances(run.atoms, k)) >= Sq(settings.separation_cutoff)
                   THEN "Far" ELSE "Buried"
        /\ \A m \in 0..1 :
               /\ run.results.surfaces[m + 1].n_blocked_atoms
                      = Cardinality(AtomsIn(run.atoms, m, "Far"))
               /\ run.results.surfaces[m + 1].n_buried_atoms
                      = Cardinality(AtomsIn(run.atoms, m, "Buried"))
               /\ run.results.surfaces[m + 1].n_blocked_atoms
                      + run.results.surfaces[m + 1].n_buried_atoms
                      = run.results.surfaces[m + 1].n_atoms

C15_Witness ==
    /\ last.op = "calc"
    /\ calcs = 2
    /\ AtomsIn(run.atoms, 0, "Far") # {}
    /\ AtomsIn(run.atoms, 0, "Buried") # {}
    /\ AtomsIn(run.atoms, 1, "Buried") # {}

\* the atoms j # i (0-based) of the molecule of atom i, or of the other one, within the
\* bridging distance r_i + r_j + 2 rp of atom i
WithinBridge(st, atoms, i, same) ==
    {j \in 0..(Len(atoms) - 1) :
         /\ j # i
         /\ (At(atoms, j).molecule = At(atoms, i).molecule) = same
         /\ distance_squared(At(atoms, i).coor, At(atoms, j).coor)
                < Sq(At(atoms, i).radius + At(atoms, j).radius + 2 * st.rp)}

\* C16: after a successful calc, in either engine and for every atom i whatever its
\* attention, neighbor_indices[i] lists exactly the same-molecule atoms within the bridging
\* distance, by ascending squared distance, buried_by_indices[i] exactly the
\* opposite-molecule ones, and an atom with no neighbour is accessible.
C16_NeighbourLists ==
    (last.op = "calc" /\ last.res.kind = "Ok") =>
        \A i \in 0..(Len(run.atoms) - 1) :
            LET a == At(run.atoms, i)
                d2(p) == distance_squared(a.coor, At(run.atoms, a.neighbor_indices[p]).coor)
            IN  /\ SeqToSet(a.neighbor_indices) = WithinBridge(settings, run.atoms, i, TRUE)
                /\ Len(a.neighbor_indices) = Cardinality(SeqToSet(a.neighbor_indices))
                /\ \A p, q \in 1..Len(a.neighbor_indices) : p < q => d2(p) <= d2(q)
                /\ SeqToSet(a.buried_by_indices) = WithinBridge(settings, run.atoms, i, FALSE)
                /\ Len(a.buried_by_indices) = Cardinality(SeqToSet(a.buried_by_indices))
                /\ a.neighbor_indices = <<>> => a.accessible

\* C17: a sorted neighbour list is in ascending order of squared distance from its atom,
\* and two neighbours at equal squared distance are in ascending order of index.
C17_StableOnTies ==
    last.op = "sort_unstable_by" =>
        LET d2(p) == distance_squared(At(run.atoms, last.res[p]).coor,
                                      At(run.atoms, last.arg[1]).coor)
        IN  \A p, q \in 1..Len(last.res) :
                p < q => \/ d2(p) < d2(q)
                         \/ d2(p) = d2(q) /\ last.res[p] < last.res[q]

\* C18: after the first calc on a loaded atom set, every atom of either molecule that is
\* not one of a probe's three atoms has its centre at squared distance > (r + rp)^2 from
\* the centre of that probe.
C18_NoFourthAtomInProbe ==
    (last.op = "calc" /\ calcs = 1) =>
        \A p \in 1..Len(run.probes) :
            \A k \in 0..(Len(run.atoms) - 1) :
                k \notin SeqToSet(run.probes[p].atom_indices)
                    => distance_squared(run.probes[p].point, At(run.atoms, k).coor)
                           > Sq(At(run.atoms, k).radius + settings.rp)

\* the side of the plane of its three atoms a probe lies on: +1 when its normal alt points
\* along (c_j - c_i) x (c_k - c_i) for its atoms i < j < k, -1 when it points against it
ProbeSign(atoms, probe) ==
    LET lo == IF probe.atom_indices[1] < probe.atom_indices[2]
              THEN probe.atom_indices[1] ELSE probe.atom_indices[2]
        hi == IF probe.atom_indices[1] < probe.atom_indices[2]
              THEN probe.atom_indices[2] ELSE probe.atom_indices[1]
        n == VCross(VSub(At(atoms, hi).coor, At(atoms, lo).coor),
                    VSub(At(atoms, probe.atom_indices[3]).coor, At(atoms, lo).coor))
    IN  IF VDot(probe.alt, n) > 0 THEN 1 ELSE -1

\* C19: after the first calc on a loaded atom set, the three atoms of every probe are
\* distinct atoms of one molecule, the third has the largest natom, the first two are in
\* ascending natom order for sign +1 and in descending order for sign -1, and no two probes
\* have the same three atoms and the same sign.
C19_OneProbePerTripleAndSign ==
    (last.op = "calc" /\ calcs = 1) =>
        /\ \A p \in 1..Len(run.probes) :
               LET idx == run.probes[p].atom_indices
               IN  /\ Cardinality(SeqToSet(idx)) = 3
                   /\ \A n \in 1..3 : idx[n] \in 0..(Len(run.atoms) - 1)
                   /\ At(run.atoms, idx[1]).molecule = At(run.atoms, idx[2]).molecule
                   /\ At(run.atoms, idx[2]).molecule = At(run.atoms, idx[3]).molecule
                   /\ At(run.atoms, idx[3]).natom > At(run.atoms, idx[1]).natom
                   /\ At(run.atoms, idx[3]).natom > At(run.atoms, idx[2]).natom
                   /\ (At(run.atoms, idx[1]).natom < At(run.atoms, idx[2]).natom)
                          = (ProbeSign(run.atoms, run.probes[p]) = 1)
        /\ \A p, q \in 1..Len(run.probes) :
               (/\ SeqToSet(run.probes[p].atom_indices) = SeqToSet(run.probes[q].atom_indices)
                /\ ProbeSign(run.atoms, run.probes[p]) = ProbeSign(run.atoms, run.probes[q]))
                   => p = q

C19_Witness ==
    /\ last.op = "calc"
    /\ calcs = 1
    /\ \E p, q \in 1..Len(run.probes) :
           /\ SeqToSet(run.probes[p].atom_indices) = SeqToSet(run.probes[q].atom_indices)
           /\ ProbeSign(run.atoms, run.probes[p]) = 1
           /\ ProbeSign(run.atoms, run.probes[q]) = -1
    /\ \E p \in 1..Len(run.probes) : run.probes[p].atom_indices[1] > 0

\* C20: within a calc all contact sampling comes before all toroidal sampling: in the
\* dot buffer of a molecule, which keeps the dots in the order they were emitted, no
\* Reentrant dot comes before a Contact dot.
C20_ContactBeforeReentrant ==
    (last.op = "calc" /\ calcs = 1) =>
        \A m \in 1..2 :
            \A p, q \in 1..Len(run.dots[m]) :
                p < q => ~(run.dots[m][p].kind = "Reentrant" /\ run.dots[m][q].kind = "Contact")

\* C24: after the first calc on a loaded atom set, no dot of either buffer, whatever its
\* kind, is owned by an atom whose attention is Far.
C24_NoDotOnFarAtom ==
    (last.op = "calc" /\ calcs = 1) =>
        \A m \in 1..2 : \A k \in 1..Len(run.dots[m]) :
            At(run.atoms, run.dots[m][k].atom_index).attention # "Far"

\* C25: an add_atom that fails leaves the atom store, results, the probe list and the dot
\* buffers as they were, so that the next successful add_atom gets the ordinal it would
\* have had.
C25_FailedAddAtomChangesNothing ==
    [][(last'.op = "add_atom" /\ last' # last /\ last'.res.kind # "Ok" /\ calcs' = calcs)
           => /\ run' = run
              /\ \A i \in AtomInputs :
                     LET a == add_atom(settings, radii', run', i.molecule, i.atom)
                     IN  a.res.kind = "Ok"
                             => At(a.run.atoms, Len(run.atoms)).natom = Len(run.atoms) + 1]_vars

C25_Witness ==
    /\ last.op = "add_atom"
    /\ last.res.kind # "Ok"
    /\ Len(run.atoms) >= 2
    /\ AllDotsOf(run) # <<>>

\* C26: whatever add_atom, calc and reset calls were made, results.n_atoms is the length
\* of the atom store, surfaces[m].n_atoms the number of stored atoms of molecule m, every
\* stored atom has a radius > 0 and a molecule in {0, 1}, and an add_atom with a molecule
\* argument other than 1 stores its atom in molecule 0.
C26_StoreCounters ==
    /\ run.results.n_atoms = Len(run.atoms)
    /\ \A m \in 0..1 :
           run.results.surfaces[m + 1].n_atoms
               = Cardinality({k \in 1..Len(run.atoms) : run.atoms[k].molecule = m})
    /\ \A k \in 1..Len(run.atoms) :
           run.atoms[k].radius > 0 /\ run.atoms[k].molecule \in {0, 1}
    /\ (last.op = "add_atom" /\ last.res.kind = "Ok") =>
           run.atoms[Len(run.atoms)].molecule = IF last.arg[1].molecule = 1 THEN 1 ELSE 0

C26_Witness ==
    /\ last.op = "add_atom"
    /\ last.res.kind = "Ok"
    /\ last.arg[1].molecule = 2
    /\ run.atoms[Len(run.atoms)].molecule = 0
    /\ \E k \in 1..Len(run.atoms) : run.atoms[k].molecule = 1
    /\ calcs > 0

\* the number of dots of the given kind in both buffers
KindCount(r, kind) ==
    Cardinality({k \in 1..Len(r.dots[1]) : r.dots[1][k].kind = kind})
        + Cardinality({k \in 1..Len(r.dots[2]) : r.dots[2][k].kind = kind})

\* C27: after the first calc on a loaded atom set, in the serial and in the parallel engine,
\* every dot of dots[m] is owned by a stored atom of molecule m, and the counters convex,
\* toroidal and concave are the numbers of Contact, Reentrant and Cavity dots of the two
\* buffers, so that their sum is the number of dots.
C27_DotsAndCounters ==
    (last.op = "calc" /\ calcs = 1 /\ run.atoms # <<>>) =>
        /\ \A m \in 0..1 : \A k \in 1..Len(run.dots[m + 1]) :
               /\ run.dots[m + 1][k].atom_index \in 0..(Len(run.atoms) - 1)
               /\ At(run.atoms, run.dots[m + 1][k].atom_index).molecule = m
        /\ run.results.dots.convex = KindCount(run, "Contact")
        /\ run.results.dots.toroidal = KindCount(run, "Reentrant")
        /\ run.results.dots.concave = KindCount(run, "Cavity")
        /\ run.results.dots.convex + run.results.dots.toroidal + run.results.dots.concave
               = Len(run.dots[1]) + Len(run.dots[2])

C27_Witness ==
    /\ last.op = "calc"
    /\ last.res.kind = "Ok"
    /\ calcs = 1
    /\ settings.enable_parallel
    /\ run.dots[1] # <<>>
    /\ run.dots[2] # <<>>
    /\ KindCount(run, "Contact") > 0
    /\ KindCount(run, "Reentrant") > 0
    /\ KindCount(run, "Cavity") > 0

\* the dots emit_reentrant_surface stores for atoms i and j of run r, per molecule
BeltDots(st, r, i, j) ==
    emit_reentrant_surface(st, [r EXCEPT !.dots = <<<<>>, <<>>>>], i, j).run.dots

\* every dot of the belt between i and j is in the buffers of r
BeltSampled(st, r, i, j) ==
    \A m \in 1..2 :
        \A k \in 1..Len(BeltDots(st, r, i, j)[m]) :
            \E n \in 1..Len(r.dots[m]) : r.dots[m][n] = BeltDots(st, r, i, j)[m][k]

\* the pairs C22 is about: i is not Far, j is in i's neighbour list with a larger natom,
\* and the far term and the containment term are both > 0
BeltPairs(st, r) ==
    {ij \in (0..(Len(r.atoms) - 1)) \X (0..(Len(r.atoms) - 1)) :
        /\ At(r.atoms, ij[1]).attention # "Far"
        /\ \E p \in 1..Len(At(r.atoms, ij[1]).neighbor_indices) :
               At(r.atoms, ij[1]).neighbor_indices[p] = ij[2]
        /\ At(r.atoms, ij[2]).natom > At(r.atoms, ij[1]).natom
        /\ FarTerm(st, At(r.atoms, ij[1]), At(r.atoms, ij[2])) > 0
        /\ ContainTerm(At(r.atoms, ij[1]), At(r.atoms, ij[2])) > 0}

\* C22: after a successful first calc, for every atom i that is not Far and every neighbour
\* j of its list with natom(j) > natom(i) and a valid construction, whatever the size >= 1
\* of the list, the belt between i and j was sampled: the Reentrant dots of its accepted
\* ring samples are in the buffers.
C22_EveryValidBeltIsSampled ==
    (last.op = "calc" /\ last.res.kind = "Ok" /\ calcs = 1) =>
        \A ij \in BeltPairs(settings, run) : BeltSampled(settings, run, ij[1], ij[2])

\* the number of times d occurs in the sequence dots
Occurrences(dots, d) == Cardinality({k \in 1..Len(dots) : dots[k] = d})

\* the neighbour lists, the dot multiset of each molecule and the dot counters of a run
Outcome(r) ==
    [neighbors |-> [k \in 1..Len(r.atoms) |-> r.atoms[k].neighbor_indices],
     dots |-> [m \in 1..2 |-> [d \in SeqToSet(r.dots[m]) |-> Occurrences(r.dots[m], d)]],
     counters |-> r.results.dots]

\* what the parallel engine leaves at the start of phase op, from the store r0 the
\* neighbour phase started with, whatever the order in which tasks completed
AtPhase(st, r0, op) ==
    IF op = "neighbors" THEN r0
    ELSE IF op = "probes" THEN NeighborPhase(st, r0).run
    ELSE IF op = "contact" THEN AtomPhase(st, NeighborPhase(st, r0)).run
    ELSE IF op = "concave" THEN ContactPhase(st, AtomPhase(st, NeighborPhase(st, r0))).run
    ELSE ConcavePhase(st, ContactPhase(st, AtomPhase(st, NeighborPhase(st, r0)))).run

\* C21: in the parallel phases a task that completes leaves the atom array, the probe list
\* and the dot buffers as they are, and after the driver's merge the neighbour lists, the
\* dot multiset of each molecule and the dot counters are the same whatever the order in
\* which the tasks completed.
C21_TasksOnlyReturn ==
    /\ Outcome(run) = Outcome(AtPhase(settings, last.arg[1], last.op))
    /\ last.op \in {"neighbors", "contact", "concave"} =>
           /\ run.atoms = AtPhase(settings, last.arg[1], last.op).atoms
           /\ run.probes = AtPhase(settings, last.arg[1], last.op).probes
           /\ run.dots = AtPhase(settings, last.arg[1], last.op).dots

C21_Witness ==
    /\ last.op = "done"
    /\ last.res.kind = "Ok"
    /\ last.arg[2] = 3
    /\ run.dots[1] # <<>>
    /\ run.dots[2] # <<>>
    /\ run.results.dots.convex > 0
    /\ run.results.dots.concave > 0
    /\ \E k \in 1..Len(run.atoms) : Len(run.atoms[k].neighbor_indices) >= 2

\* the indices i >= 0 of the angles (i + 0.5) D that do not exceed the span
FittingSamples(rad, sd, angle) ==
    {i \in 0..MaxAngle : (2 * i + 1) * (Delta(rad, sd) \div 2) <= angle}

\* C23: for a radius > 0 the arc sampler, in both copies, returns TooManySubdivisions when
\* more samples than the cap fit in the span, and otherwise Ok with exactly the samples at
\* the angles (i + 0.5) D <= A in a buffer that holds nothing else and the per-sample length
\* r A / n (0 when n = 0); it never returns Ok with more points than the cap; for a
\* radius <= 0 it returns Ok(0) with an empty buffer.
C23_ArcSampler ==
    last.op \in {"sample_arc_segment", "geom_sample_arc_segment"} =>
        LET rad == last.arg[1]
            sd == last.arg[2]
            angle == last.arg[3]
            n == Cardinality(FittingSamples(rad, sd, angle))
        IN  IF rad <= 0
            THEN last.res = [res |-> Ok, ps |-> [num |-> 0, den |-> 1], points |-> <<>>]
            ELSE /\ last.res.res.kind = (IF n > LoopCap THEN "TooManySubdivisions" ELSE "Ok")
                 /\ last.res.res.kind = "Ok" =>
                        /\ Len(last.res.points) <= LoopCap
                        /\ last.res.points
                               = [k \in 1..n |->
                                     [rad |-> rad, a |-> (2 * k - 1) * (Delta(rad, sd) \div 2)]]
                        /\ last.res.ps = IF n = 0 THEN [num |-> 0, den |-> 1]
                                         ELSE [num |-> rad * angle, den |-> n]

====
